---- MODULE Spec2Model ----
(***************************************************************************)
(* hive-spoke: the validate, pull and verify commands over the three       *)
(* .collab/ documents (manifest, status, operator) and the allowed-signers *)
(* registry.                                                               *)
(*                                                                         *)
(* Text is a sequence of one-character strings, so that trim, split,       *)
(* startsWith, includes and the schemas' regular expressions are computed  *)
(* character by character.  An optional value is <<>> (absent, null,       *)
(* undefined) or <<v>> (present).                                          *)
(***************************************************************************)
EXTENDS Integers, Sequences, FiniteSets, TLC

(* ------------------------------------------------------------------ *)
(* Bounds of the model                                                 *)
(* ------------------------------------------------------------------ *)

\* At most this many project directories under projects/.
MaxProjects == 3

\* At most this many lines in the allowed-signers file.
MaxLines == 2

(* ------------------------------------------------------------------ *)
(* Optional values                                                     *)
(* ------------------------------------------------------------------ *)

None == <<>>

Some(v) == <<v>>

IsSome(o) == o # <<>>

Get(o) == o[1]

\* a ?? b
OrElse(o, d) == IF o # <<>> THEN o[1] ELSE d

(* ------------------------------------------------------------------ *)
(* Characters and JavaScript string primitives                         *)
(* ------------------------------------------------------------------ *)

Upper ==
  {"A","B","C","D","E","F","G","H","I","J","K","L","M",
   "N","O","P","Q","R","S","T","U","V","W","X","Y","Z"}

Lower ==
  {"a","b","c","d","e","f","g","h","i","j","k","l","m",
   "n","o","p","q","r","s","t","u","v","w","x","y","z"}

Digit == {"0","1","2","3","4","5","6","7","8","9"}

\* \w of a JavaScript regular expression
WordChar == Upper \cup Lower \cup Digit \cup {"_"}

\* \s of a JavaScript regular expression, over the characters the model uses
IsWs(c) == c \in {" ", "\t", "\r", "\n"}

\* UTF-16 code units in ascending order: what Array.prototype.sort compares
CodeOrder ==
  <<"\t", "\n", "\r", " ", "#", "+", "-", ".", "/",
    "0","1","2","3","4","5","6","7","8","9", ":", "<", "=", ">", "@",
    "A","B","C","D","E","F","G","H","I","J","K","L","M",
    "N","O","P","Q","R","S","T","U","V","W","X","Y","Z", "_",
    "a","b","c","d","e","f","g","h","i","j","k","l","m",
    "n","o","p","q","r","s","t","u","v","w","x","y","z">>

CodeUnit(c) == CHOOSE i \in 1..Len(CodeOrder) : CodeOrder[i] = c

\* String.prototype.startsWith
StartsWith(s, p) == Len(p) <= Len(s) /\ SubSeq(s, 1, Len(p)) = p

\* String.prototype.includes
Includes(s, sub) ==
  \E i \in 1..(Len(s) + 1) :
    i + Len(sub) - 1 <= Len(s) /\ SubSeq(s, i, i + Len(sub) - 1) = sub

RECURSIVE TrimStart(_)
TrimStart(s) ==
  IF s # <<>> /\ IsWs(Head(s)) THEN TrimStart(Tail(s)) ELSE s

RECURSIVE TrimEnd(_)
TrimEnd(s) ==
  IF s # <<>> /\ IsWs(s[Len(s)]) THEN TrimEnd(SubSeq(s, 1, Len(s) - 1)) ELSE s

\* String.prototype.trim
Trim(s) == TrimEnd(TrimStart(s))

\* s.split(/\s+/): cut at every maximal run of whitespace; a leading or a
\* trailing run leaves an empty first or last token, "" gives [""].
RECURSIVE SplitWsFrom(_, _, _, _)
SplitWsFrom(s, parts, cur, inWs) ==
  IF s = <<>> THEN Append(parts, cur)
  ELSE IF IsWs(Head(s))
       THEN IF inWs THEN SplitWsFrom(Tail(s), parts, cur, TRUE)
                    ELSE SplitWsFrom(Tail(s), Append(parts, cur), <<>>, TRUE)
       ELSE SplitWsFrom(Tail(s), parts, Append(cur, Head(s)), FALSE)

SplitWs(s) == SplitWsFrom(s, <<>>, <<>>, FALSE)

\* content.split("\n")
RECURSIVE SplitLinesFrom(_, _, _)
SplitLinesFrom(s, parts, cur) ==
  IF s = <<>> THEN Append(parts, cur)
  ELSE IF Head(s) = "\n"
       THEN SplitLinesFrom(Tail(s), Append(parts, cur), <<>>)
       ELSE SplitLinesFrom(Tail(s), parts, Append(cur, Head(s)))

SplitLines(s) == SplitLinesFrom(s, <<>>, <<>>)

\* a < b as JavaScript compares strings: by UTF-16 code units, a proper
\* prefix first
RECURSIVE StrLess(_, _)
StrLess(a, b) ==
  IF b = <<>> THEN FALSE
  ELSE IF a = <<>> THEN TRUE
  ELSE IF Head(a) = Head(b) THEN StrLess(Tail(a), Tail(b))
  ELSE CodeUnit(Head(a)) < CodeUnit(Head(b))

RECURSIVE InsertSorted(_, _)
InsertSorted(x, sorted) ==
  IF sorted = <<>> THEN <<x>>
  ELSE IF StrLess(x, Head(sorted)) THEN <<x>> \o sorted
  ELSE <<Head(sorted)>> \o InsertSorted(x, Tail(sorted))

\* The sort mutant: the names stay in the order readdirSync gave them
ReaddirOrder(names) == names

\* Array.prototype.sort() with the default comparison
RECURSIVE Sort(_)
Sort(names) ==
  IF names = <<>> THEN <<>> ELSE InsertSorted(Head(names), Sort(Tail(names)))

AllIn(s, class) == \A i \in 1..Len(s) : s[i] \in class

(* ------------------------------------------------------------------ *)
(* Literals of the source, as text                                     *)
(* ------------------------------------------------------------------ *)

\* "1.0"
SchemaVersion == <<"1",".","0">>

\* "ssh-ed25519 ", the prefix both schemas require of a public key
Ed25519Prefix == <<"s","s","h","-","e","d","2","5","5","1","9"," ">>

\* "SHA256:"
Sha256Prefix == <<"S","H","A","2","5","6",":">>

\* "<your-public-key-here>"
PlaceholderMark == <<"<","y","o","u","r","-","p","u","b","l","i","c","-","k","e","y","-","h","e","r","e",">">>

\* "unknown", "never", "main"
TxtUnknown == <<"u","n","k","n","o","w","n">>

TxtNever == <<"n","e","v","e","r">>

\* src/schemas/manifest.ts: ACCEPTED_LICENSES
ACCEPTED_LICENSES ==
  { <<"M","I","T">>,
    <<"A","p","a","c","h","e","-","2",".","0">>,
    <<"B","S","D","-","2","-","C","l","a","u","s","e">>,
    <<"B","S","D","-","3","-","C","l","a","u","s","e">>,
    <<"C","C","-","B","Y","-","4",".","0">>,
    <<"A","G","P","L","-","3",".","0">> }

\* src/schemas/status.ts: LIFECYCLE_PHASES
LIFECYCLE_PHASES ==
  { <<"s","p","e","c","i","f","y">>,
    <<"b","u","i","l","d">>,
    <<"h","a","r","d","e","n">>,
    <<"c","o","n","t","r","i","b","-","p","r","e","p">>,
    <<"r","e","v","i","e","w">>,
    <<"s","h","i","p","p","e","d">>,
    <<"e","v","o","l","v","i","n","g">> }

AVAILABILITY ==
  { <<"o","p","e","n">>, <<"b","u","s","y">>, <<"o","f","f","l","i","n","e">> }

TxtOpen == <<"o","p","e","n">>

\* HiveEntrySchema: role, trust_zone
HIVE_ROLES ==
  { <<"c","o","n","t","r","i","b","u","t","o","r">>, <<"r","e","v","i","e","w","e","r">>, <<"m","a","i","n","t","a","i","n","e","r">> }

TRUST_ZONES ==
  { <<"u","n","t","r","u","s","t","e","d">>, <<"t","r","u","s","t","e","d">>, <<"m","a","i","n","t","a","i","n","e","r">> }

\* The hub mutant: the pattern without its anchors, /[\w-]+\/[\w.-]+/
MatchesOrgRepoUnanchored(s) ==
  \E i \in 1..Len(s) :
    /\ s[i] = "/"
    /\ i > 1
    /\ i < Len(s)
    /\ s[i - 1] \in WordChar \cup {"-"}
    /\ s[i + 1] \in WordChar \cup {".", "-"}

\* /^[\w-]+\/[\w.-]+$/
MatchesOrgRepo(s) ==
  \E i \in 1..Len(s) :
    /\ s[i] = "/"
    /\ i > 1
    /\ i < Len(s)
    /\ AllIn(SubSeq(s, 1, i - 1), WordChar \cup {"-"})
    /\ AllIn(SubSeq(s, i + 1, Len(s)), WordChar \cup {".", "-"})

\* /^[a-zA-Z0-9-]+$/
MatchesHandle(s) ==
  Len(s) >= 1 /\ AllIn(s, Upper \cup Lower \cup Digit \cup {"-"})

\* /^SHA256:[A-Za-z0-9+/=]+$/
MatchesFingerprint(s) ==
  /\ StartsWith(s, Sha256Prefix)
  /\ Len(s) > Len(Sha256Prefix)
  /\ AllIn(SubSeq(s, Len(Sha256Prefix) + 1, Len(s)),
           Upper \cup Lower \cup Digit \cup {"+", "/", "="})

(* ------------------------------------------------------------------ *)
(* Schemas (zod).  A raw document is what YAML decoding returned: None  *)
(* for an empty document, or a record whose fields are optional values. *)
(* XxxSchemaIssues lists the ZodError's issues in zod's order (the      *)
(* shape's key order); XxxSchemaParse is the typed value, defaults      *)
(* applied, returned when there is no issue.                            *)
(* ------------------------------------------------------------------ *)

Issue(path, message) == [path |-> path, message |-> message]

\* z.literal("1.0")
ZLiteral(path, v, lit) ==
  IF v = Some(lit) THEN <<>>
  ELSE <<Issue(path, "Invalid literal value, expected \"1.0\"")>>

\* z.string().min(1, message)
ZStringMin1(path, v, message) ==
  IF v = None THEN <<Issue(path, "Required")>>
  ELSE IF Len(Get(v)) < 1 THEN <<Issue(path, message)>>
  ELSE <<>>

\* z.string().min(1).optional()
ZOptStringMin1(path, v) ==
  IF v # None /\ Len(Get(v)) < 1
  THEN <<Issue(path, "String must contain at least 1 character(s)")>>
  ELSE <<>>

\* z.string().regex(re, message), z.string().startsWith(p, message),
\* z.string().refine(ok, message): ok is the check's verdict on the value
ZStringCheck(path, v, ok, message) ==
  IF v = None THEN <<Issue(path, "Required")>>
  ELSE IF ~ok THEN <<Issue(path, message)>>
  ELSE <<>>

\* the same, .optional()
ZOptStringCheck(path, v, ok, message) ==
  IF v # None /\ ~ok THEN <<Issue(path, message)>> ELSE <<>>

\* z.enum(values, { errorMap }) : the errorMap's message for any failure
ZEnumMsg(path, v, values, message) ==
  IF v = None \/ Get(v) \notin values THEN <<Issue(path, message)>> ELSE <<>>

\* z.enum(values).optional()
ZOptEnum(path, v, values) ==
  IF v # None /\ Get(v) \notin values
  THEN <<Issue(path, "Invalid enum value")>>
  ELSE <<>>

\* The count mutant: z.number().int(), negative counts accepted
ZIntAnySign(path, v) ==
  IF v = None THEN <<Issue(path, "Required")>> ELSE <<>>

\* z.number().int().nonnegative()
ZNonNegInt(path, v) ==
  IF v = None THEN <<Issue(path, "Required")>>
  ELSE IF Get(v) < 0
  THEN <<Issue(path, "Number must be greater than or equal to 0")>>
  ELSE <<>>

\* z.number().int().nonnegative().optional()
ZOptNonNegInt(path, v) ==
  IF v # None /\ Get(v) < 0
  THEN <<Issue(path, "Number must be greater than or equal to 0")>>
  ELSE <<>>

\* z.boolean()
ZBoolean(path, v) ==
  IF v = None THEN <<Issue(path, "Required")>> ELSE <<>>

\* Date.parse(val): the instant in milliseconds, or None for NaN.  A
\* timestamp text is modelled by whether the host's date parser accepts it
\* and by the instant it then denotes.
DateParse(text) == IF text.parses THEN Some(text.ms) ELSE None

\* (val) => !isNaN(Date.parse(val))
IsDateText(v) == v # None /\ DateParse(Get(v)) # None

(* --- src/schemas/manifest.ts --- *)

ManifestIdentityIssues(identity) ==
  IF identity = None THEN <<Issue("identity", "Required")>>
  ELSE LET id == Get(identity) IN
    ZStringMin1("identity.handle", id.handle, "Identity handle is required")
    \o ZStringCheck("identity.publicKey", id.publicKey,
                    id.publicKey # None /\ StartsWith(Get(id.publicKey), Ed25519Prefix),
                    "Public key must be an Ed25519 SSH key")
    \o ZOptStringCheck("identity.fingerprint", id.fingerprint,
                       id.fingerprint # None /\ MatchesFingerprint(Get(id.fingerprint)),
                       "Fingerprint must be SHA256 format")

ManifestStatusIssues(st) ==
  IF st = None THEN <<>>
  ELSE ZOptStringMin1("status.test", Get(st).test)
       \o ZOptStringMin1("status.healthCheck", Get(st).healthCheck)

\* The license mutant: any non-empty license is accepted.
ManifestLicenseIssuesAnyLicense(license) ==
  ZStringMin1("license", license, "License is required")

\* license: z.enum(ACCEPTED_LICENSES, { errorMap })
ManifestLicenseIssues(license) ==
  ZEnumMsg("license", license, ACCEPTED_LICENSES,
           "License must be one of: MIT, Apache-2.0, BSD-2-Clause, BSD-3-Clause, CC-BY-4.0, AGPL-3.0")

\* ManifestSchema.parse(raw) throws a ZodError with these issues
ManifestSchemaIssues(raw) ==
  IF raw = None THEN <<Issue("", "Required")>>
  ELSE LET r == Get(raw) IN
    ZLiteral("schemaVersion", r.schemaVersion, SchemaVersion)
    \o ZStringMin1("name", r.name, "Project name is required")
    \o ZStringCheck("hub", r.hub, r.hub # None /\ MatchesOrgRepo(Get(r.hub)),
                    "Hub must be in org/repo format")
    \o ZStringMin1("project", r.project, "Project identifier is required")
    \o ZStringCheck("maintainer", r.maintainer,
                    r.maintainer # None /\ MatchesHandle(Get(r.maintainer)),
                    "Maintainer must be a valid GitHub handle")
    \o ManifestLicenseIssues(r.license)
    \o ManifestIdentityIssues(r.identity)
    \o ManifestStatusIssues(r.status)

\* The reflexes mutant: every flag is stored negated
ManifestReflexesNegated(security) ==
  LET rf == IF security = None THEN None ELSE Get(security).reflexes
  IN [ signing         |-> IF rf = None THEN TRUE ELSE ~OrElse(Get(rf).signing, FALSE),
       secretScanning  |-> IF rf = None THEN TRUE ELSE ~OrElse(Get(rf).secretScanning, FALSE),
       sandboxEnforcer |-> IF rf = None THEN TRUE ELSE ~OrElse(Get(rf).sandboxEnforcer, FALSE),
       contentFilter   |-> IF rf = None THEN TRUE ELSE ~OrElse(Get(rf).contentFilter, FALSE) ]

\* security.reflexes with .optional().default(...) applied at every level
ManifestReflexes(security) ==
  LET rf == IF security = None THEN None ELSE Get(security).reflexes
  IN [ signing         |-> IF rf = None THEN FALSE ELSE OrElse(Get(rf).signing, FALSE),
       secretScanning  |-> IF rf = None THEN FALSE ELSE OrElse(Get(rf).secretScanning, FALSE),
       sandboxEnforcer |-> IF rf = None THEN FALSE ELSE OrElse(Get(rf).sandboxEnforcer, FALSE),
       contentFilter   |-> IF rf = None THEN FALSE ELSE OrElse(Get(rf).contentFilter, FALSE) ]

\* The typed Manifest ManifestSchema.parse(raw) returns when it does not throw
ManifestSchemaParse(raw) ==
  LET r == Get(raw) IN
  [ schemaVersion |-> Get(r.schemaVersion),
    name          |-> Get(r.name),
    hub           |-> Get(r.hub),
    project       |-> Get(r.project),
    maintainer    |-> Get(r.maintainer),
    license       |-> Get(r.license),
    identity      |-> [ handle      |-> Get(Get(r.identity).handle),
                        publicKey   |-> Get(Get(r.identity).publicKey),
                        fingerprint |-> Get(r.identity).fingerprint ],
    security      |-> [ reflexes |-> ManifestReflexes(r.security) ],
    status        |-> r.status ]

(* --- src/schemas/status.ts --- *)

StatusTestsIssues(tests) ==
  IF tests = None THEN <<Issue("tests", "Required")>>
  ELSE ZNonNegInt("tests.passing", Get(tests).passing)
       \o ZNonNegInt("tests.failing", Get(tests).failing)

StatusGitIssues(git) ==
  IF git = None THEN <<Issue("git", "Required")>>
  ELSE LET g == Get(git) IN
    ZStringMin1("git.branch", g.branch, "Branch name is required")
    \o ZStringCheck("git.lastCommit", g.lastCommit, IsDateText(g.lastCommit),
                    "lastCommit must be a valid date")
    \o ZBoolean("git.dirty", g.dirty)
    \o ZNonNegInt("git.behindRemote", g.behindRemote)

\* StatusSchema.parse(raw) throws a ZodError with these issues
StatusSchemaIssues(raw) ==
  IF raw = None THEN <<Issue("", "Required")>>
  ELSE LET r == Get(raw) IN
    ZLiteral("schemaVersion", r.schemaVersion, SchemaVersion)
    \o ZStringCheck("generatedAt", r.generatedAt, IsDateText(r.generatedAt),
                    "generatedAt must be a valid ISO 8601 timestamp")
    \o ZStringMin1("generatedBy", r.generatedBy, "generatedBy is required")
    \o ZEnumMsg("phase", r.phase, LIFECYCLE_PHASES,
                "Phase must be one of: specify, build, harden, contrib-prep, review, shipped, evolving")
    \o StatusTestsIssues(r.tests)
    \o StatusGitIssues(r.git)

\* The typed SpokeStatus StatusSchema.parse(raw) returns
StatusSchemaParse(raw) ==
  LET r == Get(raw) IN
  [ schemaVersion |-> Get(r.schemaVersion),
    generatedAt   |-> Get(r.generatedAt),
    generatedBy   |-> Get(r.generatedBy),
    phase         |-> Get(r.phase),
    tests         |-> [ passing |-> Get(Get(r.tests).passing),
                        failing |-> Get(Get(r.tests).failing) ],
    git           |-> [ branch       |-> Get(Get(r.git).branch),
                        lastCommit   |-> Get(Get(r.git).lastCommit),
                        dirty        |-> Get(Get(r.git).dirty),
                        behindRemote |-> Get(Get(r.git).behindRemote) ] ]

(* --- src/schemas/operator.ts --- *)

\* IdentityEntrySchema, for the entry at index i (from 0) of identities
IdentityEntryIssues(i, e) ==
  LET at(f) == "identities." \o ToString(i) \o "." \o f IN
  ZStringMin1(at("provider"), e.provider, "String must contain at least 1 character(s)")
  \o ZStringMin1(at("id"), e.id, "String must contain at least 1 character(s)")
  \o ZBoolean(at("verified"), e.verified)
  \o ZOptStringCheck(at("verified_at"), e.verified_at, IsDateText(e.verified_at),
                     "Must be valid ISO 8601")

\* HiveEntrySchema, for the entry at index i (from 0) of hives
HiveEntryIssues(i, e) ==
  LET at(f) == "hives." \o ToString(i) \o "." \o f IN
  ZStringCheck(at("hive"), e.hive, e.hive # None /\ MatchesOrgRepo(Get(e.hive)),
               "Hive must be in org/repo format")
  \o ZOptEnum(at("role"), e.role, HIVE_ROLES)
  \o ZOptEnum(at("trust_zone"), e.trust_zone, TRUST_ZONES)
  \o ZOptStringCheck(at("joined"), e.joined, IsDateText(e.joined),
                     "Must be valid ISO 8601")
  \o ZOptNonNegInt(at("contributions"), e.contributions)
  \o ZOptNonNegInt(at("reviews"), e.reviews)
  \o ZOptNonNegInt(at("swarms"), e.swarms)

RECURSIVE IdentitiesIssuesFrom(_, _)
IdentitiesIssuesFrom(i, entries) ==
  IF entries = <<>> THEN <<>>
  ELSE IdentityEntryIssues(i, Head(entries)) \o IdentitiesIssuesFrom(i + 1, Tail(entries))

RECURSIVE HivesIssuesFrom(_, _)
HivesIssuesFrom(i, entries) ==
  IF entries = <<>> THEN <<>>
  ELSE HiveEntryIssues(i, Head(entries)) \o HivesIssuesFrom(i + 1, Tail(entries))

OperatorSigningIssues(signing) ==
  IF signing = None THEN <<Issue("signing", "Required")>>
  ELSE LET sg == Get(signing) IN
    ZStringCheck("signing.publicKey", sg.publicKey,
                 sg.publicKey # None /\ StartsWith(Get(sg.publicKey), Ed25519Prefix),
                 "Must be an Ed25519 SSH key")
    \o ZOptStringCheck("signing.fingerprint", sg.fingerprint,
                       sg.fingerprint # None /\ MatchesFingerprint(Get(sg.fingerprint)),
                       "Must be SHA256 format")

\* OperatorSchema.parse(raw) throws a ZodError with these issues
\* (OperatorTier1Schema.merge(OperatorTier2Schema): Tier 1 keys, then hives)
OperatorSchemaIssues(raw) ==
  IF raw = None THEN <<Issue("", "Required")>>
  ELSE LET r == Get(raw) IN
    ZLiteral("schemaVersion", r.schemaVersion, SchemaVersion)
    \o ZStringMin1("handle", r.handle, "Handle is required")
    \o OperatorSigningIssues(r.signing)
    \o IdentitiesIssuesFrom(0, OrElse(r.identities, <<>>))
    \o ZOptEnum("availability", r.availability, AVAILABILITY)
    \o HivesIssuesFrom(0, OrElse(r.hives, <<>>))

\* The defaults mutant: an absent availability is left absent
OperatorSchemaParseNoAvailability(raw) ==
  LET r == Get(raw) IN
  [ schemaVersion |-> Get(r.schemaVersion),
    handle        |-> Get(r.handle),
    name          |-> r.name,
    signing       |-> [ publicKey   |-> Get(Get(r.signing).publicKey),
                        fingerprint |-> Get(r.signing).fingerprint ],
    identities    |-> OrElse(r.identities, <<>>),
    skills        |-> OrElse(r.skills, <<>>),
    availability  |-> OrElse(r.availability, <<>>),
    hives         |-> OrElse(r.hives, <<>>) ]

\* The typed Operator OperatorSchema.parse(raw) returns
OperatorSchemaParse(raw) ==
  LET r == Get(raw) IN
  [ schemaVersion |-> Get(r.schemaVersion),
    handle        |-> Get(r.handle),
    name          |-> r.name,
    signing       |-> [ publicKey   |-> Get(Get(r.signing).publicKey),
                        fingerprint |-> Get(r.signing).fingerprint ],
    identities    |-> OrElse(r.identities, <<>>),
    skills        |-> OrElse(r.skills, <<>>),
    availability  |-> OrElse(r.availability, TxtOpen),
    hives         |-> OrElse(r.hives, <<>>) ]

(* ------------------------------------------------------------------ *)
(* Sample texts and documents the environment can hold                  *)
(* ------------------------------------------------------------------ *)

HandleAl == <<"a","l">>

HandleAlCapital == <<"A","l">>

HandleBo == <<"b","o">>

KeyA == Ed25519Prefix \o <<"A","A">>

KeyZ == Ed25519Prefix \o <<"Z","Z">>

KeyPlaceholder == Ed25519Prefix \o PlaceholderMark

KeyRsa == <<"s","s","h","-","r","s","a"," ","A","A">>

FpA == Sha256Prefix \o <<"a","b">>

FpB == Sha256Prefix \o <<"c","d">>

HubOk == <<"o","/","r">>

HubBad == <<"o","r">>

LicenseMIT == <<"M","I","T">>

LicenseGPL == <<"G","P","L">>

ProjX == <<"x">>

ProjY == <<"y">>

PhaseBuild == <<"b","u","i","l","d">>

PhaseBogus == <<"b","e","t","a">>

TxtTool == <<"h","s">>

BranchMain == <<"m","a","i","n">>

\* A raw manifest as init writes it, with the given identity, hub, license
\* and project; fp is an optional fingerprint.
RawManifest(handle, key, fp, hub, license, project) ==
  Some([ schemaVersion |-> Some(SchemaVersion),
         name          |-> Some(project),
         hub           |-> Some(hub),
         project       |-> Some(project),
         maintainer    |-> Some(handle),
         license       |-> Some(license),
         identity      |-> Some([ handle      |-> Some(handle),
                                  publicKey   |-> Some(key),
                                  fingerprint |-> fp ]),
         security      |-> None,
         status        |-> None ])

\* A timestamp text the date parser accepts, denoting instant ms
DateText(ms) == [parses |-> TRUE, ms |-> ms, text |-> <<>>]

\* A text the date parser rejects, kept as its characters
NonDate(text) == [parses |-> FALSE, ms |-> 0, text |-> text]

NotADate == NonDate(<<"n","o","t","-","a","-","d","a","t","e">>)

RawStatus(generatedAt, phase, failing) ==
  Some([ schemaVersion |-> Some(SchemaVersion),
         generatedAt   |-> Some(generatedAt),
         generatedBy   |-> Some(TxtTool),
         phase         |-> Some(phase),
         tests         |-> Some([passing |-> Some(1), failing |-> Some(failing)]),
         git           |-> Some([ branch       |-> Some(BranchMain),
                                  lastCommit   |-> Some(generatedAt),
                                  dirty        |-> Some(FALSE),
                                  behindRemote |-> Some(0) ]) ])

\* A Tier-1-only operator document
RawOperator(handle, key, fp) ==
  Some([ schemaVersion |-> Some(SchemaVersion),
         handle        |-> Some(handle),
         name          |-> None,
         signing       |-> Some([publicKey |-> Some(key), fingerprint |-> fp]),
         identities    |-> None,
         skills        |-> None,
         availability  |-> None,
         hives         |-> None ])

\* What reading a document gave: no file, a file YAML cannot decode, or the
\* decoded value
Missing == [kind |-> "missing", raw |-> None]

YamlError == [kind |-> "yamlError", raw |-> None]

Doc(raw) == [kind |-> "doc", raw |-> raw]

(* ------------------------------------------------------------------ *)
(* Time.  Instants are milliseconds counted from a reference instant a  *)
(* little more than eight days before the run, so that they fit TLC's   *)
(* integers; only differences of instants are ever used.                *)
(* ------------------------------------------------------------------ *)

MsPerDay == 24 * 60 * 60 * 1000

\* The clock readings a validate run may see
NowSamples == {9 * MsPerDay, 9 * MsPerDay + 1}

\* The clock reading of a pull run
PullNow == 9 * MsPerDay

\* Instants a pulled status may carry: 7 days and 1 second, 7 days and 1 ms,
\* exactly 7 days, and 6 days before the clock reading
GeneratedAtSamples ==
  { 2 * MsPerDay - 1000, 2 * MsPerDay - 1, 2 * MsPerDay, 3 * MsPerDay }

(* ------------------------------------------------------------------ *)
(* State                                                               *)
(* ------------------------------------------------------------------ *)

VARIABLES
  cmd,            \* the command that runs
  pc,             \* where its handler stands
  json,           \* getJsonMode()
  strict,         \* validate --strict
  env,            \* what the run has read from its environment, in order
  results,        \* validate: ValidationResult {errors, warnings}
  manifest,       \* the handler's local manifest (None: null or unassigned)
  status,         \* the handler's local status
  operator,       \* validate: the local operator
  exitCode,       \* process.exitCode (0 while unset)
  report,         \* the final report printed, None before
  projects,       \* pull, verify: the sorted project directory names
  idx,            \* pull, verify: index of the next project
  spokes,         \* pull: SpokeEntry[]
  counters,       \* pull: withCollab, withoutCollab, fetched, noRepo, noCollab
  failLog,        \* pull: the projects fail(...) was printed for
  allowedSigners, \* verify: the parsed registry, in insertion order
  verifyResults   \* verify: VerifyResult[]

vars ==
  << cmd, pc, json, strict, env, results, manifest, status, operator, exitCode,
     report, projects, idx, spokes, counters, failLog, allowedSigners,
     verifyResults >>

\* The counter mutant: withCollab starts at 1
ZeroCountersOneCollab ==
  [withCollab |-> 1, withoutCollab |-> 0, fetched |-> 0, noRepo |-> 0, noCollab |-> 0]

ZeroCounters ==
  [withCollab |-> 0, withoutCollab |-> 0, fetched |-> 0, noRepo |-> 0, noCollab |-> 0]

\* The state in which a command's handler is entered
InitFor(commands) ==
  /\ cmd \in commands
  /\ pc = "start"
  /\ json \in BOOLEAN
  /\ strict \in (IF cmd = "validate" THEN BOOLEAN ELSE {FALSE})
  /\ env = <<>>
  /\ results = [errors |-> <<>>, warnings |-> <<>>]
  /\ manifest = None
  /\ status = None
  /\ operator = None
  /\ exitCode = 0
  /\ report = None
  /\ projects = <<>>
  /\ idx = 1
  /\ spokes = <<>>
  /\ counters = ZeroCounters
  /\ failLog = <<>>
  /\ allowedSigners = <<>>
  /\ verifyResults = <<>>

\* One read of the environment, as env records it
Read(project, file, doc) == [project |-> project, file |-> file, doc |-> doc]

(* ------------------------------------------------------------------ *)
(* validate (src/commands/validate.ts)                                 *)
(* ------------------------------------------------------------------ *)

Finding(source, path, message) ==
  [source |-> source, path |-> path, message |-> message]

\* The fail-fast mutant: only the first issue is reported.
IssueErrorsFirstOnly(file, issues) ==
  IF issues = <<>> THEN <<>>
  ELSE <<[source |-> file, path |-> Head(issues).path, message |-> Head(issues).message]>>

\* for (const issue of err.issues) results.errors.push(`${file}: ${path} — ${message}`)
RECURSIVE IssueErrors(_, _)
IssueErrors(file, issues) ==
  IF issues = <<>> THEN <<>>
  ELSE <<Finding(file, Head(issues).path, Head(issues).message)>>
       \o IssueErrors(file, Tail(issues))

\* validateManifest: the manifest returned and what it pushed on results
validateManifestOutcome(doc) ==
  IF doc.kind = "missing"
  THEN [ value |-> None, warnings |-> <<>>,
         errors |-> <<Finding("manifest.yaml", "", "manifest.yaml not found")>> ]
  ELSE IF doc.kind = "yamlError"
  THEN [ value |-> None, warnings |-> <<>>,
         errors |-> <<Finding("manifest.yaml", "", "YAMLException")>> ]
  ELSE IF ManifestSchemaIssues(doc.raw) # <<>>
  THEN [ value |-> None, warnings |-> <<>>,
         errors |-> IssueErrors("manifest.yaml", ManifestSchemaIssues(doc.raw)) ]
  ELSE LET m == ManifestSchemaParse(doc.raw) IN
       [ value |-> Some(m), errors |-> <<>>,
         warnings |-> IF Includes(m.identity.publicKey, PlaceholderMark)
                      THEN <<Finding("manifest.yaml", "identity.publicKey",
                                     "publicKey is still a placeholder")>>
                      ELSE <<>> ]

\* validateStatus, with now the reading of Date.now()
validateStatusOutcome(doc, now) ==
  IF doc.kind = "missing"
  THEN [ value |-> None, errors |-> <<>>,
         warnings |-> <<Finding("status.yaml", "", "status.yaml not found")>> ]
  ELSE IF doc.kind = "yamlError"
  THEN [ value |-> None, warnings |-> <<>>,
         errors |-> <<Finding("status.yaml", "", "YAMLException")>> ]
  ELSE IF StatusSchemaIssues(doc.raw) # <<>>
  THEN [ value |-> None, warnings |-> <<>>,
         errors |-> IssueErrors("status.yaml", StatusSchemaIssues(doc.raw)) ]
  ELSE LET st == StatusSchemaParse(doc.raw)
           \* daysSince > 7, daysSince = (now - generated) / (1000*60*60*24)
           old == now - Get(DateParse(st.generatedAt)) > 7 * (1000 * 60 * 60 * 24)
       IN [ value |-> Some(st), errors |-> <<>>,
            warnings |-> IF old
                         THEN <<Finding("status.yaml", "generatedAt",
                                        "generated days ago - consider regenerating")>>
                         ELSE <<>> ]

\* The grading mutant: a missing operator.yaml is an error
validateOperatorOutcomeMissingIsError(doc) ==
  IF doc.kind = "missing"
  THEN [ value |-> None, warnings |-> <<>>,
         errors |-> <<Finding("operator.yaml", "", "operator.yaml not found")>> ]
  ELSE IF doc.kind = "yamlError"
  THEN [ value |-> None, warnings |-> <<>>,
         errors |-> <<Finding("operator.yaml", "", "YAMLException")>> ]
  ELSE IF OperatorSchemaIssues(doc.raw) # <<>>
  THEN [ value |-> None, warnings |-> <<>>,
         errors |-> IssueErrors("operator.yaml", OperatorSchemaIssues(doc.raw)) ]
  ELSE [ value |-> Some(OperatorSchemaParse(doc.raw)), errors |-> <<>>,
         warnings |-> <<>> ]

\* validateOperator
validateOperatorOutcome(doc) ==
  IF doc.kind = "missing"
  THEN [ value |-> None, errors |-> <<>>,
         warnings |-> <<Finding("operator.yaml", "", "operator.yaml not found")>> ]
  ELSE IF doc.kind = "yamlError"
  THEN [ value |-> None, warnings |-> <<>>,
         errors |-> <<Finding("operator.yaml", "", "YAMLException")>> ]
  ELSE IF OperatorSchemaIssues(doc.raw) # <<>>
  THEN [ value |-> None, warnings |-> <<>>,
         errors |-> IssueErrors("operator.yaml", OperatorSchemaIssues(doc.raw)) ]
  ELSE [ value |-> Some(OperatorSchemaParse(doc.raw)), errors |-> <<>>,
         warnings |-> <<>> ]

\* validateSigning: the warnings it pushes for SigningConfig signing
validateSigningWarnings(m, signing) ==
  (IF signing.format = "ssh" THEN <<>>
   ELSE <<Finding("signing", "gpg.format", "gpg.format is not 'ssh'")>>)
  \o (IF signing.gpgSign THEN <<>>
      ELSE <<Finding("signing", "commit.gpgSign", "commit.gpgSign is not true")>>)
  \o (IF signing.signingKey # None THEN <<>>
      ELSE <<Finding("signing", "user.signingKey", "No signing key configured")>>)
  \o (IF /\ signing.fingerprint # None
         /\ m # None
         /\ Get(m).identity.fingerprint # None
         /\ Get(signing.fingerprint) # Get(Get(m).identity.fingerprint)
      THEN <<Finding("signing", "fingerprint",
                     "Signing key fingerprint does not match manifest.yaml identity.fingerprint")>>
      ELSE <<>>)

\* The mutant of the cross-file check that stops at the first mismatch.
validateCrossFileErrorsShortCircuit(m, op) ==
  IF m = None \/ op = None THEN <<>>
  ELSE IF Get(m).identity.handle # Get(op).handle
       THEN <<Finding("cross-file", "handle", "Handle mismatch")>>
       ELSE IF Get(m).identity.publicKey # Get(op).signing.publicKey
            THEN <<Finding("cross-file", "publicKey", "Public key mismatch")>>
            ELSE <<>>

\* The mutant of the cross-file check that reports a missing operator.
validateCrossFileErrorsNoSkip(m, op) ==
  IF m = None THEN <<>>
  ELSE (IF op = None \/ Get(m).identity.handle # Get(op).handle
        THEN <<Finding("cross-file", "handle", "Handle mismatch")>> ELSE <<>>)
       \o (IF op = None \/ Get(m).identity.publicKey # Get(op).signing.publicKey
           THEN <<Finding("cross-file", "publicKey", "Public key mismatch")>> ELSE <<>>)

\* validateCrossFile: the errors it pushes (it pushes no warning)
validateCrossFileErrors(m, op) ==
  IF m = None THEN <<>>
  ELSE IF op = None THEN <<>>
  ELSE (IF Get(m).identity.handle = Get(op).handle THEN <<>>
        ELSE <<Finding("cross-file", "handle", "Handle mismatch")>>)
       \o (IF Get(m).identity.publicKey = Get(op).signing.publicKey THEN <<>>
           ELSE <<Finding("cross-file", "publicKey", "Public key mismatch")>>)

\* The mutant of the summary in which --strict warnings come first.
validateSummaryOutcomeStrictFirst(res, isStrict, before) ==
  IF isStrict /\ Len(res.warnings) > 0 THEN [exitCode |-> 2, passed |-> FALSE]
  ELSE IF Len(res.errors) > 0 THEN [exitCode |-> 1, passed |-> FALSE]
  ELSE [exitCode |-> before, passed |-> TRUE]

\* The mutant of the summary that fails on warnings without --strict.
validateSummaryOutcomeAlwaysStrict(res, isStrict, before) ==
  IF Len(res.errors) > 0 THEN [exitCode |-> 1, passed |-> FALSE]
  ELSE IF Len(res.warnings) > 0 THEN [exitCode |-> 2, passed |-> FALSE]
  ELSE [exitCode |-> before, passed |-> TRUE]

\* The summary: process.exitCode after it (before is its value so far) and
\* the flag it hands to result(...)
validateSummaryOutcome(res, isStrict, before) ==
  LET hasErrors   == Len(res.errors) > 0
      hasWarnings == Len(res.warnings) > 0
      strictFail  == isStrict /\ hasWarnings
  IN IF hasErrors THEN [exitCode |-> 1, passed |-> FALSE]
     ELSE IF strictFail THEN [exitCode |-> 2, passed |-> FALSE]
     ELSE [exitCode |-> before, passed |-> TRUE]

\* The documents .collab/ may hold when validate runs
ValidateManifestDocs ==
  { Missing, YamlError, Doc(None),
    Doc(RawManifest(HandleAl, KeyA, None, HubOk, LicenseGPL, ProjX)),
    Doc(RawManifest(HandleAl, KeyRsa, None, HubBad, LicenseGPL, ProjX)),
    Doc(RawManifest(HandleAl, KeyPlaceholder, None, HubOk, LicenseMIT, ProjX)) }
  \cup { Doc(RawManifest(h, k, fp, HubOk, LicenseMIT, ProjX)) :
           h \in {HandleAl, HandleAlCapital}, k \in {KeyA, KeyZ},
           fp \in {None, Some(FpA)} }

ValidateStatusDocs ==
  { Missing, YamlError,
    Doc(RawStatus(DateText(3 * MsPerDay), PhaseBogus, 0)),
    Doc(RawStatus(NotADate, PhaseBuild, 0)),
    Doc(RawStatus(DateText(3 * MsPerDay), PhaseBuild, 0)),
    Doc(RawStatus(DateText(2 * MsPerDay - 1000), PhaseBuild, 0)) }

ValidateOperatorDocs ==
  { Missing, YamlError,
    Doc(RawOperator(HandleAl, KeyRsa, None)) }
  \cup { Doc(RawOperator(h, k, None)) :
           h \in {HandleAl, HandleAlCapital, HandleBo}, k \in {KeyA, KeyZ} }

\* getSigningConfig(): what git config and the key file give
SigningConfigs ==
  { [format |-> "ssh", gpgSign |-> TRUE, signingKey |-> Some(<<"k">>), fingerprint |-> fp] :
      fp \in {None, Some(FpA), Some(FpB)} }
  \cup { [format |-> "none", gpgSign |-> FALSE, signingKey |-> None, fingerprint |-> None],
         [format |-> "openpgp", gpgSign |-> TRUE, signingKey |-> Some(<<"k">>), fingerprint |-> None] }

\* const results = { errors: [], warnings: [] }
validateStart ==
  /\ cmd = "validate"
  /\ pc = "start"
  /\ pc' = "manifest"
  /\ results' = [errors |-> <<>>, warnings |-> <<>>]
  /\ UNCHANGED << cmd, json, strict, env, manifest, status, operator, exitCode,
                  report, projects, idx, spokes, counters, failLog,
                  allowedSigners, verifyResults >>

\* const manifest = validateManifest(collabDir, results)
validateManifest ==
  /\ cmd = "validate"
  /\ pc = "manifest"
  /\ \E doc \in ValidateManifestDocs :
       LET out == validateManifestOutcome(doc) IN
       /\ manifest' = out.value
       /\ results' = [ errors   |-> results.errors \o out.errors,
                       warnings |-> results.warnings \o out.warnings ]
       /\ env' = Append(env, Read(<<>>, "manifest.yaml", doc))
  /\ pc' = "status"
  /\ UNCHANGED << cmd, json, strict, status, operator, exitCode, report,
                  projects, idx, spokes, counters, failLog, allowedSigners,
                  verifyResults >>

\* const status = validateStatus(collabDir, results)
validateStatus ==
  /\ cmd = "validate"
  /\ pc = "status"
  /\ \E doc \in ValidateStatusDocs, now \in NowSamples :
       LET out == validateStatusOutcome(doc, now) IN
       /\ status' = out.value
       /\ results' = [ errors   |-> results.errors \o out.errors,
                       warnings |-> results.warnings \o out.warnings ]
       /\ env' = Append(env, Read(<<>>, "status.yaml", doc))
  /\ pc' = "operator"
  /\ UNCHANGED << cmd, json, strict, manifest, operator, exitCode, report,
                  projects, idx, spokes, counters, failLog, allowedSigners,
                  verifyResults >>

\* const operator = validateOperator(collabDir, results)
validateOperator ==
  /\ cmd = "validate"
  /\ pc = "operator"
  /\ \E doc \in ValidateOperatorDocs :
       LET out == validateOperatorOutcome(doc) IN
       /\ operator' = out.value
       /\ results' = [ errors   |-> results.errors \o out.errors,
                       warnings |-> results.warnings \o out.warnings ]
       /\ env' = Append(env, Read(<<>>, "operator.yaml", doc))
  /\ pc' = "signing"
  /\ UNCHANGED << cmd, json, strict, manifest, status, exitCode, report,
                  projects, idx, spokes, counters, failLog, allowedSigners,
                  verifyResults >>

\* await validateSigning(manifest, results)
validateSigning ==
  /\ cmd = "validate"
  /\ pc = "signing"
  /\ \E signing \in SigningConfigs :
       results' = [ results EXCEPT !.warnings =
                      @ \o validateSigningWarnings(manifest, signing) ]
  /\ pc' = "crossfile"
  /\ UNCHANGED << cmd, json, strict, env, manifest, status, operator, exitCode,
                  report, projects, idx, spokes, counters, failLog,
                  allowedSigners, verifyResults >>

\* validateCrossFile(manifest, operator, results)
validateCrossFile ==
  /\ cmd = "validate"
  /\ pc = "crossfile"
  /\ results' = [ results EXCEPT !.errors =
                    @ \o validateCrossFileErrors(manifest, operator) ]
  /\ pc' = "summary"
  /\ UNCHANGED << cmd, json, strict, env, manifest, status, operator, exitCode,
                  report, projects, idx, spokes, counters, failLog,
                  allowedSigners, verifyResults >>

\* The summary: result(...) and process.exitCode
validateSummary ==
  /\ cmd = "validate"
  /\ pc = "summary"
  /\ exitCode' = validateSummaryOutcome(results, strict, exitCode).exitCode
  /\ report' = Some([ kind   |-> "result",
                      passed |-> validateSummaryOutcome(results, strict, exitCode).passed ])
  /\ pc' = "done"
  /\ UNCHANGED << cmd, json, strict, env, results, manifest, status, operator,
                  projects, idx, spokes, counters, failLog, allowedSigners,
                  verifyResults >>

NextValidate ==
  \/ validateStart
  \/ validateManifest
  \/ validateStatus
  \/ validateOperator
  \/ validateSigning
  \/ validateCrossFile
  \/ validateSummary

InitValidate == InitFor({"validate"})

SpecValidate == InitValidate /\ [][NextValidate]_vars


(* ------------------------------------------------------------------ *)
(* withErrorHandling (src/utils/errors.ts) and the projects/ listing   *)
(* ------------------------------------------------------------------ *)

\* Directory names projects/ may hold; "B" sorts before "a", "a" before "ab"
DirNamePool == << <<"b">>, <<"a">>, <<"B">>, <<"a","b">>, <<"c">> >>

DirNames ==
  { DirNamePool[i] : i \in 1..(IF MaxProjects < Len(DirNamePool)
                               THEN MaxProjects ELSE Len(DirNamePool)) }

\* readdirSync: the directories in any order, no name twice
Listings ==
  UNION { { l \in [1..n -> DirNames] : \A i, j \in 1..n : l[i] = l[j] => i = j } :
          n \in 0..MaxProjects }

\* The exit-code mutant: the catch prints the error and leaves the exit code
AbortExitZero(message) ==
  /\ pc' = "aborted"
  /\ exitCode' = 0
  /\ report' = Some([kind |-> "error", passed |-> FALSE, message |-> message])

\* The handler threw: withErrorHandling's catch prints the error once and
\* sets process.exitCode = 1
Abort(message) ==
  /\ pc' = "aborted"
  /\ exitCode' = 1
  /\ report' = Some([kind |-> "error", passed |-> FALSE, message |-> message])

(* ------------------------------------------------------------------ *)
(* pull, local (projects/<name>/.collab/) and remote (GitHub API)       *)
(* ------------------------------------------------------------------ *)

\* isStale's default thresholdDays
DefaultThresholdDays == 7

\* The staleness mutant: the boundary is inclusive.
isStaleInclusive(generatedAt, thresholdDays, now) ==
  LET generated == DateParse(generatedAt) IN
  IF generated = None THEN FALSE
  ELSE now - Get(generated) >= thresholdDays * 24 * 60 * 60 * 1000

\* isStale(generatedAt, thresholdDays), now being the reading of new Date();
\* an unparseable generatedAt gives NaN, and NaN > x is false
isStale(generatedAt, thresholdDays, now) ==
  LET generated == DateParse(generatedAt) IN
  IF generated = None THEN FALSE
  ELSE now - Get(generated) > thresholdDays * 24 * 60 * 60 * 1000

\* const stale = status ? isStale(status.generatedAt) : true
StaleOf(st, now) ==
  IF st # None THEN isStale(Get(st).generatedAt, DefaultThresholdDays, now) ELSE TRUE

\* The defaults mutant: without a Status, generatedAt is "unknown"
SpokeEntryOfUnknownDate(m, st, stale) ==
  [ project      |-> m.project,
    maintainer   |-> m.maintainer,
    phase        |-> IF st # None THEN Get(st).phase ELSE TxtUnknown,
    tests        |-> IF st # None THEN Get(st).tests ELSE [passing |-> 0, failing |-> 0],
    dirty        |-> IF st # None THEN Get(st).git.dirty ELSE FALSE,
    behindRemote |-> IF st # None THEN Get(st).git.behindRemote ELSE 0,
    lastCommit   |-> IF st # None THEN Get(st).git.lastCommit ELSE NonDate(TxtUnknown),
    generatedAt  |-> IF st # None THEN Get(st).generatedAt ELSE NonDate(TxtUnknown),
    license      |-> m.license,
    reflexes     |-> m.security.reflexes,
    stale        |-> stale ]

\* The SpokeEntry the local pull builds from manifest m and status st
SpokeEntryOf(m, st, stale) ==
  [ project      |-> m.project,
    maintainer   |-> m.maintainer,
    phase        |-> IF st # None THEN Get(st).phase ELSE TxtUnknown,
    tests        |-> IF st # None THEN Get(st).tests ELSE [passing |-> 0, failing |-> 0],
    dirty        |-> IF st # None THEN Get(st).git.dirty ELSE FALSE,
    behindRemote |-> IF st # None THEN Get(st).git.behindRemote ELSE 0,
    lastCommit   |-> IF st # None THEN Get(st).git.lastCommit ELSE NonDate(TxtUnknown),
    generatedAt  |-> IF st # None THEN Get(st).generatedAt ELSE NonDate(TxtNever),
    license      |-> m.license,
    reflexes     |-> m.security.reflexes,
    stale        |-> stale ]

\* The body of the try block of one iteration: the manifest document and,
\* when a status file exists, the status document are decoded and parsed;
\* thrown says whether anything threw, manifest and status are the locals
\* assigned before it did.
PullTry(manifestDoc, statusDoc) ==
  IF manifestDoc.kind = "yamlError" \/ ManifestSchemaIssues(manifestDoc.raw) # <<>>
  THEN [thrown |-> TRUE, manifest |-> None, status |-> None]
  ELSE LET m == Some(ManifestSchemaParse(manifestDoc.raw)) IN
    IF statusDoc.kind = "missing"
    THEN [thrown |-> FALSE, manifest |-> m, status |-> None]
    ELSE IF statusDoc.kind = "yamlError" \/ StatusSchemaIssues(statusDoc.raw) # <<>>
    THEN [thrown |-> TRUE, manifest |-> m, status |-> None]
    ELSE [thrown |-> FALSE, manifest |-> m, status |-> Some(StatusSchemaParse(statusDoc.raw))]

\* The documents a spoke's .collab/ may hold when the hub pulls
PullManifestDocs ==
  { YamlError, Doc(None),
    Doc(RawManifest(HandleAl, KeyA, None, HubOk, LicenseGPL, ProjX)),
    Doc(RawManifest(HandleAl, KeyA, None, HubOk, LicenseMIT, ProjY)),
    Doc(RawManifest(HandleBo, KeyZ, Some(FpA), HubOk, LicenseMIT, ProjX)) }

PullStatusDocs ==
  { YamlError,
    Doc(RawStatus(DateText(3 * MsPerDay), PhaseBogus, 0)) }
  \cup { Doc(RawStatus(DateText(t), PhaseBuild, 0)) : t \in GeneratedAtSamples }

\* existsSync(projectsDir), readdirSync(...).sort()
pullStart ==
  /\ cmd \in {"pullLocal", "pullRemote"}
  /\ pc = "start"
  /\ \/ \* no projects/ directory
        /\ Abort("No projects/ directory found")
        /\ UNCHANGED projects
     \/ /\ \E listing \in Listings : projects' = Sort(listing)
        /\ pc' = "loop"
        /\ UNCHANGED << exitCode, report >>
  /\ UNCHANGED << cmd, json, strict, env, results, manifest, status, operator,
                  idx, spokes, counters, failLog, allowedSigners, verifyResults >>

\* One iteration of the local loop, for project projects[idx]
pullLocalStep ==
  /\ cmd = "pullLocal"
  /\ pc = "loop"
  /\ idx <= Len(projects)
  /\ LET project == projects[idx] IN
     \/ \* no .collab/ or no manifest.yaml
        /\ counters' = [counters EXCEPT !.withoutCollab = @ + 1]
        /\ env' = Append(env, Read(project, "manifest.yaml", Missing))
        /\ manifest' = None
        /\ status' = None
        /\ UNCHANGED << spokes, failLog >>
     \/ \E manifestDoc \in PullManifestDocs,
           statusDoc \in PullStatusDocs \cup {Missing} :
          LET try == PullTry(manifestDoc, statusDoc)
              \* the status file is looked at only once the manifest parsed
              reads == <<Read(project, "manifest.yaml", manifestDoc)>>
                       \o (IF try.manifest # None
                           THEN <<Read(project, "status.yaml", statusDoc)>>
                           ELSE <<>>)
          IN /\ (try.manifest = None => statusDoc = Missing)
             /\ counters' = [counters EXCEPT !.withCollab = @ + 1]
             /\ env' = env \o reads
             /\ manifest' = try.manifest
             /\ status' = try.status
             /\ IF try.thrown
                THEN /\ failLog' = IF json THEN failLog ELSE Append(failLog, project)
                     /\ UNCHANGED spokes
                ELSE /\ spokes' = Append(spokes,
                          SpokeEntryOf(Get(try.manifest), try.status,
                                       StaleOf(try.status, PullNow)))
                     /\ UNCHANGED failLog
  /\ idx' = idx + 1
  /\ UNCHANGED << cmd, pc, json, strict, results, operator, exitCode, report,
                  projects, allowedSigners, verifyResults >>

\* After the loop: formatJson({...}) or the summary lines and result(true, ...)
pullFinish ==
  /\ cmd \in {"pullLocal", "pullRemote"}
  /\ pc = "loop"
  /\ idx > Len(projects)
  /\ pc' = "done"
  /\ report' = Some([kind |-> IF json THEN "json" ELSE "result", passed |-> TRUE])
  /\ UNCHANGED << cmd, json, strict, env, results, manifest, status, operator,
                  exitCode, projects, idx, spokes, counters, failLog,
                  allowedSigners, verifyResults >>

NextPullLocal ==
  \/ pullStart
  \/ pullLocalStep
  \/ pullFinish

InitPullLocal == InitFor({"pullLocal"})

SpecPullLocal == InitPullLocal /\ [][NextPullLocal]_vars


(* --- remote pull (src/commands/pull.ts) --- *)

RepoA == <<"o","/","r">>

\* What projects/<name>/PROJECT.yaml may hold: no file, text that is not
\* YAML, an empty document, a document without source, one naming a repo
ProjectYamlDocs ==
  { Missing, YamlError, Doc(None),
    Doc(Some([source |-> None])),
    Doc(Some([source |-> Some([repo |-> Some(RepoA), branch |-> None])])) }

\* loadYaml throws on text that is not YAML; reading .source of the null an
\* empty document loads as throws a TypeError
ProjectYamlThrows(doc) == doc.kind = "yamlError" \/ doc.raw = None

\* projectYaml.source?.repo
ProjectYamlRepo(doc) ==
  IF Get(doc.raw).source = None THEN None ELSE Get(Get(doc.raw).source).repo

\* What `gh api repos/<repo>/contents/<path>` may do: fail because the file
\* is not there, fail because the network or the API did, or print content
GhNotFound == [kind |-> "notFound", raw |-> None]

GhNetworkError == [kind |-> "networkError", raw |-> None]

\* fetchFileFromRepo: the decoded content, null when gh failed
fetchFileFromRepo(outcome) ==
  IF outcome.kind \in {"notFound", "networkError"} THEN None ELSE Some(outcome)

RemoteManifestOutcomes ==
  { GhNotFound, GhNetworkError, YamlError, Doc(None),
    Doc(RawManifest(HandleAl, KeyA, None, HubOk, LicenseMIT, ProjY)) }

RemoteStatusOutcomes ==
  { GhNotFound, GhNetworkError, YamlError,
    Doc(RawStatus(DateText(3 * MsPerDay), PhaseBogus, 0)),
    Doc(RawStatus(DateText(2 * MsPerDay), PhaseBuild, 0)),
    Doc(RawStatus(DateText(2 * MsPerDay - 1), PhaseBuild, 0)) }

\* pull.ts has its own copy of isStale
isStaleRemote(generatedAt, thresholdDays, now) ==
  LET generated == DateParse(generatedAt) IN
  IF generated = None THEN FALSE
  ELSE now - Get(generated) > thresholdDays * 24 * 60 * 60 * 1000

\* The SpokeEntry the remote pull builds
RemoteSpokeEntryOf(m, repo, st, stale) ==
  [ project      |-> m.project,
    repo         |-> repo,
    maintainer   |-> m.maintainer,
    phase        |-> IF st # None THEN Get(st).phase ELSE TxtUnknown,
    tests        |-> IF st # None THEN Get(st).tests ELSE [passing |-> 0, failing |-> 0],
    dirty        |-> IF st # None THEN Get(st).git.dirty ELSE FALSE,
    behindRemote |-> IF st # None THEN Get(st).git.behindRemote ELSE 0,
    lastCommit   |-> IF st # None THEN Get(st).git.lastCommit ELSE NonDate(TxtUnknown),
    generatedAt  |-> IF st # None THEN Get(st).generatedAt ELSE NonDate(TxtNever),
    license      |-> m.license,
    reflexes     |-> m.security.reflexes,
    stale        |-> stale ]

\* The body of the remote try block, given the two fetched contents
RemotePullTry(manifestContent, statusContent) ==
  IF manifestContent.kind = "yamlError" \/ ManifestSchemaIssues(manifestContent.raw) # <<>>
  THEN [thrown |-> TRUE, manifest |-> None, status |-> None]
  ELSE LET m == Some(ManifestSchemaParse(manifestContent.raw)) IN
    IF statusContent = None
    THEN [thrown |-> FALSE, manifest |-> m, status |-> None]
    ELSE IF Get(statusContent).kind = "yamlError"
            \/ StatusSchemaIssues(Get(statusContent).raw) # <<>>
    THEN [thrown |-> TRUE, manifest |-> m, status |-> None]
    ELSE [thrown |-> FALSE, manifest |-> m,
          status |-> Some(StatusSchemaParse(Get(statusContent).raw))]

\* One iteration of the remote loop, for project projects[idx]
pullRemoteStep ==
  /\ cmd = "pullRemote"
  /\ pc = "loop"
  /\ idx <= Len(projects)
  /\ LET project == projects[idx] IN
     \E projectDoc \in ProjectYamlDocs :
       IF projectDoc.kind = "missing"
       THEN /\ counters' = [counters EXCEPT !.noRepo = @ + 1]
            /\ env' = Append(env, Read(project, "PROJECT.yaml", projectDoc))
            /\ manifest' = None
            /\ status' = None
            /\ idx' = idx + 1
            /\ UNCHANGED << pc, exitCode, report, spokes, failLog >>
       ELSE IF ProjectYamlThrows(projectDoc)
       THEN \* nothing in the loop catches this: the handler is left
            /\ Abort("PROJECT.yaml")
            /\ env' = Append(env, Read(project, "PROJECT.yaml", projectDoc))
            /\ manifest' = None
            /\ status' = None
            /\ UNCHANGED << idx, counters, spokes, failLog >>
       ELSE IF ProjectYamlRepo(projectDoc) = None
       THEN /\ counters' = [counters EXCEPT !.noRepo = @ + 1]
            /\ env' = Append(env, Read(project, "PROJECT.yaml", projectDoc))
            /\ manifest' = None
            /\ status' = None
            /\ idx' = idx + 1
            /\ UNCHANGED << pc, exitCode, report, spokes, failLog >>
       ELSE \E manifestOutcome \in RemoteManifestOutcomes :
         LET repo == Get(ProjectYamlRepo(projectDoc))
             manifestContent == fetchFileFromRepo(manifestOutcome)
         IN IF manifestContent = None
            THEN /\ counters' = [counters EXCEPT !.noCollab = @ + 1]
                 /\ env' = env \o << Read(project, "PROJECT.yaml", projectDoc),
                                     Read(project, "manifest.yaml", manifestOutcome) >>
                 /\ manifest' = None
                 /\ status' = None
                 /\ idx' = idx + 1
                 /\ UNCHANGED << pc, exitCode, report, spokes, failLog >>
            ELSE \E statusOutcome \in RemoteStatusOutcomes :
              LET try == RemotePullTry(Get(manifestContent),
                                       fetchFileFromRepo(statusOutcome))
              IN /\ env' = env \o << Read(project, "PROJECT.yaml", projectDoc),
                                     Read(project, "manifest.yaml", manifestOutcome),
                                     Read(project, "status.yaml", statusOutcome) >>
                 /\ manifest' = try.manifest
                 /\ status' = try.status
                 /\ idx' = idx + 1
                 /\ IF try.thrown
                    THEN /\ failLog' = IF json THEN failLog ELSE Append(failLog, project)
                         /\ UNCHANGED << spokes, counters >>
                    ELSE /\ spokes' = Append(spokes,
                              RemoteSpokeEntryOf(Get(try.manifest), repo, try.status,
                                IF try.status # None
                                THEN isStaleRemote(Get(try.status).generatedAt,
                                                   DefaultThresholdDays, PullNow)
                                ELSE TRUE))
                         /\ counters' = [counters EXCEPT !.fetched = @ + 1]
                         /\ UNCHANGED failLog
                 /\ UNCHANGED << pc, exitCode, report >>
  /\ UNCHANGED << cmd, json, strict, results, operator, projects,
                  allowedSigners, verifyResults >>


(* ------------------------------------------------------------------ *)
(* verify, local and remote (src/commands/verify.ts)                    *)
(* ------------------------------------------------------------------ *)

\* Lines an allowed-signers file may hold: two entries, one of them with a
\* trailing comment token, a comment, an entry for an e-mail already listed
\* written with tabs, runs of blanks and a carriage return, a line of two
\* tokens, an empty line
SignerLinePool ==
  { <<"a","l"," ">> \o KeyA,
    <<"b","o"," ">> \o KeyZ \o <<" ","c">>,
    <<"#"," ","x">>,
    <<" ","\t","a","l"," "," ","s","s","h","-","e","d","2","5","5","1","9","\t","Z","Z","\r">>,
    <<"a","l"," ","s","s","h","-","e","d","2","5","5","1","9">>,
    <<>> }

\* lines.join("\n")
RECURSIVE JoinLines(_)
JoinLines(lines) ==
  IF lines = <<>> THEN <<>>
  ELSE IF Len(lines) = 1 THEN lines[1]
  ELSE lines[1] \o <<"\n">> \o JoinLines(Tail(lines))

\* The allowed-signers files of at most MaxLines lines
SignerFiles ==
  { JoinLines(lines) : lines \in UNION { [1..n -> SignerLinePool] : n \in 0..MaxLines } }

\* Map.prototype.set: an existing key keeps its place and takes the new value
MapSet(map, entry) ==
  IF \E i \in 1..Len(map) : map[i].email = entry.email
  THEN [i \in 1..Len(map) |-> IF map[i].email = entry.email THEN entry ELSE map[i]]
  ELSE Append(map, entry)

\* The comment mutant: lines beginning with "#" are not skipped
RECURSIVE parseAllowedSignersFromKeepComments(_, _)
parseAllowedSignersFromKeepComments(lines, signers) ==
  IF lines = <<>> THEN signers
  ELSE LET trimmed == Trim(Head(lines))
           parts == SplitWs(trimmed)
       IN IF trimmed = <<>>
          THEN parseAllowedSignersFromKeepComments(Tail(lines), signers)
          ELSE IF Len(parts) >= 3
          THEN parseAllowedSignersFromKeepComments(Tail(lines),
                 MapSet(signers, [ email     |-> parts[1],
                                   keyType   |-> parts[2],
                                   publicKey |-> parts[2] \o <<" ">> \o parts[3] ]))
          ELSE parseAllowedSignersFromKeepComments(Tail(lines), signers)

\* The loop of the local parseAllowedSigners over the lines of the file
RECURSIVE parseAllowedSignersFrom(_, _)
parseAllowedSignersFrom(lines, signers) ==
  IF lines = <<>> THEN signers
  ELSE LET trimmed == Trim(Head(lines))
           parts == SplitWs(trimmed)
       IN IF trimmed = <<>> \/ StartsWith(trimmed, <<"#">>)
          THEN parseAllowedSignersFrom(Tail(lines), signers)
          ELSE IF Len(parts) >= 3
          THEN parseAllowedSignersFrom(Tail(lines),
                 MapSet(signers, [ email     |-> parts[1],
                                   keyType   |-> parts[2],
                                   publicKey |-> parts[2] \o <<" ">> \o parts[3] ]))
          ELSE parseAllowedSignersFrom(Tail(lines), signers)

\* parseAllowedSigners of the local verifier, on the content of the file
parseAllowedSigners(content) == parseAllowedSignersFrom(SplitLines(content), <<>>)

\* The loop of the remote parseAllowedSigners
RECURSIVE parseAllowedSignersRemoteFrom(_, _)
parseAllowedSignersRemoteFrom(lines, signers) ==
  IF lines = <<>> THEN signers
  ELSE LET trimmed == Trim(Head(lines))
           parts == SplitWs(trimmed)
       IN IF trimmed = <<>> \/ StartsWith(trimmed, <<"#">>)
          THEN parseAllowedSignersRemoteFrom(Tail(lines), signers)
          ELSE IF Len(parts) >= 3
          THEN parseAllowedSignersRemoteFrom(Tail(lines),
                 MapSet(signers, [ email     |-> parts[1],
                                   keyType   |-> parts[2],
                                   publicKey |-> parts[2] \o <<" ">> \o parts[3] ]))
          ELSE parseAllowedSignersRemoteFrom(Tail(lines), signers)

\* parseAllowedSigners of the remote verifier
parseAllowedSignersRemote(content) ==
  parseAllowedSignersRemoteFrom(SplitLines(content), <<>>)

\* The second test of the matching loop: both keys split on whitespace have
\* two parts at least and agree on the first two
KeyPartsMatch(spokeKey, signerKey) ==
  LET spokeKeyParts == SplitWs(spokeKey)
      signerKeyParts == SplitWs(signerKey)
  IN /\ Len(spokeKeyParts) >= 2
     /\ Len(signerKeyParts) >= 2
     /\ spokeKeyParts[1] = signerKeyParts[1]
     /\ spokeKeyParts[2] = signerKeyParts[2]

\* The matching mutant: only the prefix test decides.
RECURSIVE LocalKeyMatchPrefixOnly(_, _)
LocalKeyMatchPrefixOnly(spokeKey, signers) ==
  IF signers = <<>> THEN FALSE
  ELSE IF StartsWith(spokeKey, Head(signers).publicKey) THEN TRUE
  ELSE LocalKeyMatchPrefixOnly(spokeKey, Tail(signers))

\* The matching mutant: the key type alone decides
RECURSIVE LocalKeyMatchTypeOnly(_, _)
LocalKeyMatchTypeOnly(spokeKey, signers) ==
  IF signers = <<>> THEN FALSE
  ELSE IF SplitWs(spokeKey)[1] = Head(signers).keyType THEN TRUE
  ELSE LocalKeyMatchTypeOnly(spokeKey, Tail(signers))

\* The local matching loop: entries in insertion order, leaving at the
\* first that matches
RECURSIVE LocalKeyMatch(_, _)
LocalKeyMatch(spokeKey, signers) ==
  IF signers = <<>> THEN FALSE
  ELSE IF StartsWith(spokeKey, Head(signers).publicKey) THEN TRUE
  ELSE IF KeyPartsMatch(spokeKey, Head(signers).publicKey) THEN TRUE
  ELSE LocalKeyMatch(spokeKey, Tail(signers))

\* The remote matching loop has the second test only
RECURSIVE RemoteKeyMatch(_, _)
RemoteKeyMatch(spokeKey, signers) ==
  IF signers = <<>> THEN FALSE
  ELSE IF KeyPartsMatch(spokeKey, Head(signers).publicKey) THEN TRUE
  ELSE RemoteKeyMatch(spokeKey, Tail(signers))

\* The issue texts; "-" stands for the dash (U+2014) of the source
IssueInvalidManifest == "Invalid manifest.yaml"

IssueNotInSignersLocal ==
  "Public key NOT in allowed-signers - operator is not registered on hub"

IssueNotInSignersRemote ==
  "Public key NOT in allowed-signers - operator not registered on hub"

IssueNoFingerprint == "No fingerprint in manifest - cannot verify key binding"

\* The issues mutant: a missing fingerprint is let through.
LocalVerifyIssuesKeyOnly(inAllowedSigners, spokeFingerprint) ==
  IF inAllowedSigners THEN <<>> ELSE <<IssueNotInSignersLocal>>

\* The issues the local verifier pushes, in order
LocalVerifyIssues(inAllowedSigners, spokeFingerprint) ==
  (IF inAllowedSigners THEN <<>> ELSE <<IssueNotInSignersLocal>>)
  \o (IF spokeFingerprint = None THEN <<IssueNoFingerprint>> ELSE <<>>)

\* The issues the remote verifier pushes, in order
RemoteVerifyIssues(inAllowedSigners, spokeFingerprint) ==
  (IF inAllowedSigners THEN <<>> ELSE <<IssueNotInSignersRemote>>)
  \o (IF spokeFingerprint = None THEN <<IssueNoFingerprint>> ELSE <<>>)

\* The VerifyResult of the local verifier for a manifest that parsed
LocalVerifyResult(project, m, signers) ==
  LET spokeKey == m.identity.publicKey
      spokeFingerprint == m.identity.fingerprint
      matched == LocalKeyMatch(spokeKey, signers)
  IN [ project          |-> project,
       handle           |-> m.identity.handle,
       fingerprint      |-> spokeFingerprint,
       inAllowedSigners |-> matched,
       keyMatch         |-> matched,
       issues           |-> LocalVerifyIssues(matched, spokeFingerprint) ]

\* The VerifyResult pushed by the catch block of the local verifier
LocalInvalidResult(project) ==
  [ project          |-> project,
    handle           |-> TxtUnknown,
    fingerprint      |-> None,
    inAllowedSigners |-> FALSE,
    keyMatch         |-> FALSE,
    issues           |-> <<IssueInvalidManifest>> ]

RemoteVerifyResult(project, repo, m, signers) ==
  LET spokeKey == m.identity.publicKey
      spokeFingerprint == m.identity.fingerprint
      matched == RemoteKeyMatch(spokeKey, signers)
  IN [ project          |-> project,
       repo             |-> repo,
       handle           |-> m.identity.handle,
       fingerprint      |-> spokeFingerprint,
       inAllowedSigners |-> matched,
       keyMatch         |-> matched,
       issues           |-> RemoteVerifyIssues(matched, spokeFingerprint) ]

RemoteInvalidResult(project, repo) ==
  [ project          |-> project,
    repo             |-> repo,
    handle           |-> TxtUnknown,
    fingerprint      |-> None,
    inAllowedSigners |-> FALSE,
    keyMatch         |-> FALSE,
    issues           |-> <<IssueInvalidManifest>> ]

\* Spoke keys the schema accepts: the registered key, the same with a
\* comment after it, with two blanks in it, with more key data after it,
\* another registered key, a key without key data
KeyAComment == KeyA \o <<" ","a","l","@","h">>

KeyATwoBlanks == Ed25519Prefix \o <<" ","A","A">>

KeyALonger == KeyA \o <<"B">>

KeyBare == Ed25519Prefix

VerifyManifestDocs ==
  { YamlError,
    Doc(RawManifest(HandleAl, KeyRsa, Some(FpA), HubOk, LicenseMIT, ProjX)),
    Doc(RawManifest(HandleAl, KeyA, Some(FpA), HubOk, LicenseMIT, ProjX)),
    Doc(RawManifest(HandleAl, KeyA, None, HubOk, LicenseMIT, ProjX)),
    Doc(RawManifest(HandleAl, KeyAComment, Some(FpA), HubOk, LicenseMIT, ProjX)),
    Doc(RawManifest(HandleAl, KeyATwoBlanks, Some(FpA), HubOk, LicenseMIT, ProjX)),
    Doc(RawManifest(HandleAl, KeyALonger, Some(FpA), HubOk, LicenseMIT, ProjX)),
    Doc(RawManifest(HandleBo, KeyZ, Some(FpB), HubOk, LicenseMIT, ProjY)),
    Doc(RawManifest(HandleBo, KeyBare, None, HubOk, LicenseMIT, ProjY)) }

\* The two existsSync preconditions, parseAllowedSigners, readdirSync().sort()
verifyStart ==
  /\ cmd \in {"verifyLocal", "verifyRemote"}
  /\ pc = "start"
  /\ \/ \* no projects/ directory, or no allowed-signers file
        /\ \E message \in {"No projects/ directory found",
                            "allowed-signers file not found"} : Abort(message)
        /\ UNCHANGED << projects, allowedSigners >>
     \/ \E content \in SignerFiles, listing \in Listings :
          /\ allowedSigners' = IF cmd = "verifyLocal"
                               THEN parseAllowedSigners(content)
                               ELSE parseAllowedSignersRemote(content)
          /\ projects' = Sort(listing)
          /\ pc' = "loop"
          /\ UNCHANGED << exitCode, report >>
  /\ UNCHANGED << cmd, json, strict, env, results, manifest, status, operator,
                  idx, spokes, counters, failLog, verifyResults >>

\* One iteration of the local loop, for project projects[idx]
verifyLocalStep ==
  /\ cmd = "verifyLocal"
  /\ pc = "loop"
  /\ idx <= Len(projects)
  /\ LET project == projects[idx] IN
     \E manifestDoc \in VerifyManifestDocs \cup {Missing} :
       /\ env' = Append(env, Read(project, "manifest.yaml", manifestDoc))
       /\ IF manifestDoc.kind = "missing"
          THEN /\ manifest' = None
               /\ UNCHANGED verifyResults
          ELSE IF manifestDoc.kind = "yamlError"
                  \/ ManifestSchemaIssues(manifestDoc.raw) # <<>>
          THEN /\ manifest' = None
               /\ verifyResults' = Append(verifyResults, LocalInvalidResult(project))
          ELSE /\ manifest' = Some(ManifestSchemaParse(manifestDoc.raw))
               /\ verifyResults' = Append(verifyResults,
                    LocalVerifyResult(project, ManifestSchemaParse(manifestDoc.raw),
                                      allowedSigners))
  /\ idx' = idx + 1
  /\ UNCHANGED << cmd, pc, json, strict, results, status, operator, exitCode,
                  report, projects, spokes, counters, failLog, allowedSigners >>

\* One iteration of the remote loop, for project projects[idx]
verifyRemoteStep ==
  /\ cmd = "verifyRemote"
  /\ pc = "loop"
  /\ idx <= Len(projects)
  /\ LET project == projects[idx] IN
     \E projectDoc \in ProjectYamlDocs :
       IF projectDoc.kind = "missing"
       THEN /\ env' = Append(env, Read(project, "PROJECT.yaml", projectDoc))
            /\ manifest' = None
            /\ idx' = idx + 1
            /\ UNCHANGED << pc, exitCode, report, verifyResults >>
       ELSE IF ProjectYamlThrows(projectDoc)
       THEN \* nothing in the loop catches this: the handler is left
            /\ Abort("PROJECT.yaml")
            /\ env' = Append(env, Read(project, "PROJECT.yaml", projectDoc))
            /\ manifest' = None
            /\ UNCHANGED << idx, verifyResults >>
       ELSE IF ProjectYamlRepo(projectDoc) = None
       THEN /\ env' = Append(env, Read(project, "PROJECT.yaml", projectDoc))
            /\ manifest' = None
            /\ idx' = idx + 1
            /\ UNCHANGED << pc, exitCode, report, verifyResults >>
       ELSE \E manifestOutcome \in {GhNotFound, GhNetworkError} \cup VerifyManifestDocs :
         LET repo == Get(ProjectYamlRepo(projectDoc))
             manifestContent == fetchFileFromRepo(manifestOutcome)
         IN /\ env' = env \o << Read(project, "PROJECT.yaml", projectDoc),
                                Read(project, "manifest.yaml", manifestOutcome) >>
            /\ idx' = idx + 1
            /\ UNCHANGED << pc, exitCode, report >>
            /\ IF manifestContent = None
               THEN /\ manifest' = None
                    /\ UNCHANGED verifyResults
               ELSE IF manifestOutcome.kind = "yamlError"
                       \/ ManifestSchemaIssues(manifestOutcome.raw) # <<>>
               THEN /\ manifest' = None
                    /\ verifyResults' = Append(verifyResults,
                                               RemoteInvalidResult(project, repo))
               ELSE /\ manifest' = Some(ManifestSchemaParse(manifestOutcome.raw))
                    /\ verifyResults' = Append(verifyResults,
                         RemoteVerifyResult(project, repo,
                                            ManifestSchemaParse(manifestOutcome.raw),
                                            allowedSigners))
  /\ UNCHANGED << cmd, json, strict, results, status, operator, projects,
                  spokes, counters, failLog, allowedSigners >>

\* results.filter((r) => r.issues.length === 0).length
VerifiedCount(rs) == Cardinality({i \in 1..Len(rs) : rs[i].issues = <<>>})

\* After the loop: formatJson({total, verified, unverified, results}) or the
\* summary line and result(unverified === 0, ...)
verifyFinish ==
  /\ cmd \in {"verifyLocal", "verifyRemote"}
  /\ pc = "loop"
  /\ idx > Len(projects)
  /\ pc' = "done"
  /\ LET verified == VerifiedCount(verifyResults)
         unverified == Len(verifyResults) - verified
     IN report' = Some([ kind       |-> IF json THEN "json" ELSE "result",
                         passed     |-> IF json THEN TRUE ELSE unverified = 0,
                         total      |-> Len(verifyResults),
                         verified   |-> verified,
                         unverified |-> unverified ])
  /\ UNCHANGED << cmd, json, strict, env, results, manifest, status, operator,
                  exitCode, projects, idx, spokes, counters, failLog,
                  allowedSigners, verifyResults >>

NextVerifyLocal ==
  \/ verifyStart
  \/ verifyLocalStep
  \/ verifyFinish

InitVerifyLocal == InitFor({"verifyLocal"})

SpecVerifyLocal == InitVerifyLocal /\ [][NextVerifyLocal]_vars

\* verify in both modes
NextVerify ==
  \/ verifyStart
  \/ verifyLocalStep
  \/ verifyRemoteStep
  \/ verifyFinish

InitVerify == InitFor({"verifyLocal", "verifyRemote"})

SpecVerify == InitVerify /\ [][NextVerify]_vars

\* The two commands that read spokes over the GitHub API
\* pull, local and remote
NextPull ==
  \/ pullStart
  \/ pullLocalStep
  \/ pullRemoteStep
  \/ pullFinish

InitPull == InitFor({"pullLocal", "pullRemote"})

SpecPull == InitPull /\ [][NextPull]_vars

NextRemote ==
  \/ pullStart
  \/ pullRemoteStep
  \/ pullFinish
  \/ verifyStart
  \/ verifyRemoteStep
  \/ verifyFinish

InitRemote == InitFor({"pullRemote", "verifyRemote"})

SpecRemote == InitRemote /\ [][NextRemote]_vars

\* The commands that read the hub's own checkout
NextLocal ==
  \/ validateStart
  \/ validateManifest
  \/ validateStatus
  \/ validateOperator
  \/ validateSigning
  \/ validateCrossFile
  \/ validateSummary
  \/ pullStart
  \/ pullLocalStep
  \/ pullFinish
  \/ verifyStart
  \/ verifyLocalStep
  \/ verifyFinish

InitLocal == InitFor({"validate", "pullLocal", "verifyLocal"})

SpecLocal == InitLocal /\ [][NextLocal]_vars

(* ------------------------------------------------------------------ *)
(* The schemas applied to documents, as the schema tests apply them     *)
(* ------------------------------------------------------------------ *)

\* A typed Manifest given to ManifestSchema.parse again: every key it has is
\* present in the object
ManifestAsRaw(m) ==
  Some([ schemaVersion |-> Some(m.schemaVersion),
         name          |-> Some(m.name),
         hub           |-> Some(m.hub),
         project       |-> Some(m.project),
         maintainer    |-> Some(m.maintainer),
         license       |-> Some(m.license),
         identity      |-> Some([ handle      |-> Some(m.identity.handle),
                                  publicKey   |-> Some(m.identity.publicKey),
                                  fingerprint |-> m.identity.fingerprint ]),
         security      |-> Some([ reflexes |-> Some(
                            [ signing         |-> Some(m.security.reflexes.signing),
                              secretScanning  |-> Some(m.security.reflexes.secretScanning),
                              sandboxEnforcer |-> Some(m.security.reflexes.sandboxEnforcer),
                              contentFilter   |-> Some(m.security.reflexes.contentFilter) ]) ]),
         status        |-> m.status ])

\* A typed SpokeStatus given to StatusSchema.parse again
StatusAsRaw(st) ==
  Some([ schemaVersion |-> Some(st.schemaVersion),
         generatedAt   |-> Some(st.generatedAt),
         generatedBy   |-> Some(st.generatedBy),
         phase         |-> Some(st.phase),
         tests         |-> Some([ passing |-> Some(st.tests.passing),
                                  failing |-> Some(st.tests.failing) ]),
         git           |-> Some([ branch       |-> Some(st.git.branch),
                                  lastCommit   |-> Some(st.git.lastCommit),
                                  dirty        |-> Some(st.git.dirty),
                                  behindRemote |-> Some(st.git.behindRemote) ]) ])

\* A typed Operator given to OperatorSchema.parse again
OperatorAsRaw(op) ==
  Some([ schemaVersion |-> Some(op.schemaVersion),
         handle        |-> Some(op.handle),
         name          |-> op.name,
         signing       |-> Some([ publicKey   |-> Some(op.signing.publicKey),
                                  fingerprint |-> op.signing.fingerprint ]),
         identities    |-> Some(op.identities),
         skills        |-> Some(op.skills),
         availability  |-> Some(op.availability),
         hives         |-> Some(op.hives) ])

\* Schema.safeParse(raw): the typed value, or the issues
ManifestSafeParse(raw) ==
  IF ManifestSchemaIssues(raw) = <<>>
  THEN [success |-> TRUE, data |-> Some(ManifestSchemaParse(raw)), issues |-> <<>>]
  ELSE [success |-> FALSE, data |-> None, issues |-> ManifestSchemaIssues(raw)]

StatusSafeParse(raw) ==
  IF StatusSchemaIssues(raw) = <<>>
  THEN [success |-> TRUE, data |-> Some(StatusSchemaParse(raw)), issues |-> <<>>]
  ELSE [success |-> FALSE, data |-> None, issues |-> StatusSchemaIssues(raw)]

OperatorSafeParse(raw) ==
  IF OperatorSchemaIssues(raw) = <<>>
  THEN [success |-> TRUE, data |-> Some(OperatorSchemaParse(raw)), issues |-> <<>>]
  ELSE [success |-> FALSE, data |-> None, issues |-> OperatorSchemaIssues(raw)]

\* Hubs: owner/repo, the same with dashes and a dot, no slash, two slashes,
\* no owner, no repo, a dot in the owner
SchemaHubs ==
  { HubOk, HubBad,
    <<"o","-","1","/","r",".","x","-","y">>,
    <<"o","/","r","/","x">>,
    <<"/","r">>,
    <<"o","/">>,
    <<"o",".","x","/","r">> }

\* Licenses: the accepted ones, one that is not, an accepted one in lower case
SchemaLicenses == ACCEPTED_LICENSES \cup { LicenseGPL, <<"m","i","t">> }

\* Keys: Ed25519 with data, with a comment, without data, another key type,
\* the Ed25519 type name without the blank after it
SchemaKeys ==
  { KeyA, KeyAComment, KeyBare, KeyRsa,
    <<"s","s","h","-","e","d","2","5","5","1","9","A","A">> }

\* security: absent, without reflexes, with some reflexes given
SchemaSecurities ==
  { None,
    Some([reflexes |-> None]),
    Some([reflexes |-> Some([ signing |-> Some(TRUE), secretScanning |-> None,
                              sandboxEnforcer |-> Some(FALSE), contentFilter |-> None ])]) }

\* The manifests the schema is applied to
SchemaManifestInputs ==
  { Some([Get(RawManifest(HandleAl, KeyA, Some(FpA), HubOk, LicenseMIT, ProjX))
            EXCEPT !.hub = hub, !.license = license, !.security = security,
                   !.identity = Some([@[1] EXCEPT !.publicKey = key])]) :
      hub \in {None} \cup { Some(h) : h \in SchemaHubs },
      license \in {None} \cup { Some(l) : l \in SchemaLicenses },
      key \in {None} \cup { Some(k) : k \in SchemaKeys },
      security \in SchemaSecurities }

\* The statuses the schema is applied to
SchemaStatusInputs ==
  { Some([Get(RawStatus(DateText(3 * MsPerDay), PhaseBuild, 0))
            EXCEPT !.generatedAt = generatedAt, !.phase = phase,
                   !.tests = Some([passing |-> Some(passing), failing |-> Some(failing)])]) :
      generatedAt \in {None, Some(DateText(3 * MsPerDay)), Some(NotADate)},
      phase \in {None} \cup { Some(ph) : ph \in LIFECYCLE_PHASES
                                           \cup {PhaseBogus, <<"B","u","i","l","d">>} },
      passing \in {-1, 0, 2},
      failing \in {-1, 0, 1} }

\* The operators the schema is applied to
SchemaOperatorInputs ==
  { Some([Get(RawOperator(handle, key, fp))
            EXCEPT !.availability = availability, !.identities = identities,
                   !.hives = hives]) :
      handle \in {HandleAl, <<>>},
      key \in {KeyA, KeyRsa},
      fp \in {None, Some(FpA)},
      availability \in {None, Some(<<"b","u","s","y">>), Some(<<"a","w","a","y">>)},
      identities \in { None, Some(<<>>),
                       Some(<< [ provider |-> Some(<<"g","h">>), id |-> Some(<<"1">>),
                                 verified |-> Some(TRUE), verified_at |-> None ] >>) },
      hives \in { None,
                  Some(<< [ hive |-> Some(HubOk), role |-> Some(<<"r","e","v","i","e","w","e","r">>),
                            trust_zone |-> None, joined |-> None, contributions |-> Some(1),
                            reviews |-> None, swarms |-> None ] >>),
                  Some(<< [ hive |-> Some(HubOk), role |-> Some(<<"o","w","n","e","r">>),
                            trust_zone |-> None, joined |-> None, contributions |-> None,
                            reviews |-> None, swarms |-> None ] >>) } }

\* ManifestSchema.parse(raw) on a manifest: the typed value is kept, or the
\* issues of the ZodError
schemaParseManifest ==
  /\ cmd = "schema"
  /\ pc = "start"
  /\ \E raw \in SchemaManifestInputs :
       /\ env' = <<Read(<<>>, "manifest", Doc(raw))>>
       /\ manifest' = ManifestSafeParse(raw).data
       /\ results' = [errors |-> ManifestSafeParse(raw).issues, warnings |-> <<>>]
  /\ pc' = "parsed"
  /\ UNCHANGED << cmd, json, strict, status, operator, exitCode, report, projects,
                  idx, spokes, counters, failLog, allowedSigners, verifyResults >>

\* StatusSchema.parse(raw) on a status
schemaParseStatus ==
  /\ cmd = "schema"
  /\ pc = "start"
  /\ \E raw \in SchemaStatusInputs :
       /\ env' = <<Read(<<>>, "status", Doc(raw))>>
       /\ status' = StatusSafeParse(raw).data
       /\ results' = [errors |-> StatusSafeParse(raw).issues, warnings |-> <<>>]
  /\ pc' = "parsed"
  /\ UNCHANGED << cmd, json, strict, manifest, operator, exitCode, report, projects,
                  idx, spokes, counters, failLog, allowedSigners, verifyResults >>

\* OperatorSchema.parse(raw) on an operator
schemaParseOperator ==
  /\ cmd = "schema"
  /\ pc = "start"
  /\ \E raw \in SchemaOperatorInputs :
       /\ env' = <<Read(<<>>, "operator", Doc(raw))>>
       /\ operator' = OperatorSafeParse(raw).data
       /\ results' = [errors |-> OperatorSafeParse(raw).issues, warnings |-> <<>>]
  /\ pc' = "parsed"
  /\ UNCHANGED << cmd, json, strict, manifest, status, exitCode, report, projects,
                  idx, spokes, counters, failLog, allowedSigners, verifyResults >>

\* The schema applied a second time to the same document, and applied to
\* the typed value the first application returned
schemaParseAgain ==
  /\ cmd = "schema"
  /\ pc = "parsed"
  /\ LET raw == env[1].doc.raw IN
     report' = Some(
       IF env[1].file = "manifest"
       THEN [ kind  |-> "again",
              again |-> ManifestSafeParse(raw),
              typed |-> IF manifest = None THEN None
                        ELSE Some(ManifestSafeParse(ManifestAsRaw(Get(manifest)))) ]
       ELSE IF env[1].file = "status"
       THEN [ kind  |-> "again",
              again |-> StatusSafeParse(raw),
              typed |-> IF status = None THEN None
                        ELSE Some(StatusSafeParse(StatusAsRaw(Get(status)))) ]
       ELSE [ kind  |-> "again",
              again |-> OperatorSafeParse(raw),
              typed |-> IF operator = None THEN None
                        ELSE Some(OperatorSafeParse(OperatorAsRaw(Get(operator)))) ])
  /\ pc' = "done"
  /\ UNCHANGED << cmd, json, strict, env, results, manifest, status, operator,
                  exitCode, projects, idx, spokes, counters, failLog,
                  allowedSigners, verifyResults >>

NextSchema ==
  \/ schemaParseManifest
  \/ schemaParseStatus
  \/ schemaParseOperator
  \/ schemaParseAgain

InitSchema == InitFor({"schema"}) /\ ~json

SpecSchema == InitSchema /\ [][NextSchema]_vars

(* ------------------------------------------------------------------ *)
(* parseAllowedSigners applied to the content of a file                 *)
(* ------------------------------------------------------------------ *)

\* Lines of an allowed-signers file: those of SignerLinePool, a line of
\* another key type, a comment of three tokens, a comment after blanks, a
\* line of blanks, a second key for "al", a line with two further tokens
SignerLineSamples ==
  SignerLinePool \cup
  { <<"b","o"," ">> \o KeyRsa,
    <<"#","a","l"," ">> \o KeyA,
    <<" ","#"," ","a"," ","b"," ","c">>,
    <<" ","\t">>,
    <<"a","l"," ">> \o KeyZ,
    <<"c","d"," ">> \o KeyA \o <<" ","x"," "," ","y">> }

\* The contents of at most MaxLines such lines
SignerFileSamples ==
  { JoinLines(lines) : lines \in UNION { [1..n -> SignerLineSamples] : n \in 0..MaxLines } }

\* parseAllowedSigners(filePath) of the local verifier on an existing file
signersParseLocal ==
  /\ cmd = "signersLocal"
  /\ pc = "start"
  /\ \E content \in SignerFileSamples :
       /\ env' = <<Read(<<>>, "allowed-signers", content)>>
       /\ allowedSigners' = parseAllowedSigners(content)
  /\ pc' = "done"
  /\ UNCHANGED << cmd, json, strict, results, manifest, status, operator, exitCode,
                  report, projects, idx, spokes, counters, failLog, verifyResults >>

\* parseAllowedSigners(filePath) of the remote verifier on an existing file
signersParseRemote ==
  /\ cmd = "signersRemote"
  /\ pc = "start"
  /\ \E content \in SignerFileSamples :
       /\ env' = <<Read(<<>>, "allowed-signers", content)>>
       /\ allowedSigners' = parseAllowedSignersRemote(content)
  /\ pc' = "done"
  /\ UNCHANGED << cmd, json, strict, results, manifest, status, operator, exitCode,
                  report, projects, idx, spokes, counters, failLog, verifyResults >>

\* The matching loop of the verifier (local or remote) for one spoke key
\* against the registry just parsed
signersMatchKey ==
  /\ cmd \in {"signersLocal", "signersRemote"}
  /\ pc = "done"
  /\ verifyResults = <<>>
  /\ \E spokeKey \in {KeyA, KeyZ, KeyALonger} :
       verifyResults' =
         << [ spokeKey         |-> spokeKey,
              inAllowedSigners |-> IF cmd = "signersLocal"
                                   THEN LocalKeyMatch(spokeKey, allowedSigners)
                                   ELSE RemoteKeyMatch(spokeKey, allowedSigners) ] >>
  /\ UNCHANGED << cmd, pc, json, strict, env, results, manifest, status, operator,
                  exitCode, report, projects, idx, spokes, counters, failLog,
                  allowedSigners >>

NextSigners ==
  \/ signersParseLocal
  \/ signersParseRemote
  \/ signersMatchKey

InitSigners == InitFor({"signersLocal", "signersRemote"}) /\ ~json /\ ~strict

SpecSigners == InitSigners /\ [][NextSigners]_vars

(* ------------------------------------------------------------------ *)
(* init (src/commands/init.ts, src/utils/git.ts, src/utils/yaml.ts)     *)
(* ------------------------------------------------------------------ *)

\* Whether js-yaml writes the text as a plain scalar: a text that is empty,
\* has outer blanks, begins with an indicator, holds ": " or " #", or would
\* be read back as a number, a boolean or null is written in double quotes.
YamlPlain(s) ==
  /\ Len(s) > 0
  /\ s = Trim(s)
  /\ s[1] \notin {"\"", "#", "-", "?", ":", "[", "]", "{", "}", ",",
                  "&", "*", "!", "|", ">", "%", "@"}
  /\ ~Includes(s, <<":", " ">>)
  /\ ~Includes(s, <<" ", "#">>)
  /\ ~AllIn(s, Digit \cup {"."})
  /\ s \notin { <<"t","r","u","e">>, <<"f","a","l","s","e">>, <<"n","u","l","l">> }

\* writeYaml: the characters jsYaml.dump writes for a text (quotingType '"')
writeYamlText(s) ==
  IF YamlPlain(s) THEN s ELSE <<"\"">> \o s \o <<"\"">>

\* loadYaml: the text jsYaml.load reads from the characters of a scalar
loadYamlText(y) ==
  IF Len(y) >= 2 /\ y[1] = "\"" /\ y[Len(y)] = "\""
  THEN SubSeq(y, 2, Len(y) - 1)
  ELSE Trim(y)

\* A text as it is read back from the file init wrote it to.  Numbers and
\* booleans are written and read as themselves; a timestamp text is written
\* in quotes and read back as the same text.
YamlText(s) == loadYamlText(writeYamlText(s))

GitNameAlSmith == <<"A","l"," ","S","m","i","t","h">>

TxtOperator == <<"o","p","e","r","a","t","o","r">>

\* getSigningConfig(cwd): no signing key configured, or one configured whose
\* file is unreadable (publicKey null), empty, or holds a key of some type;
\* ssh-keygen may or may not give a fingerprint
InitSigningConfigs ==
  { [ format |-> "none", gpgSign |-> FALSE, signingKey |-> None,
      publicKey |-> None, fingerprint |-> None ] }
  \cup { [ format |-> "ssh", gpgSign |-> TRUE, signingKey |-> Some(<<"k">>),
           publicKey |-> pk, fingerprint |-> fp ] :
           pk \in {None, Some(<<>>), Some(KeyA), Some(KeyRsa)},
           fp \in {None, Some(FpA)} }

\* const maintainerHandle = ghHandle ?? gitName ?? ...; gitName is
\* (await getGitUserName(cwd)) ?? "operator", so never null
maintainerHandleOf(ghHandle, gitUserName) ==
  OrElse(ghHandle, OrElse(gitUserName, TxtOperator))

\* signing.publicKey ?? "ssh-ed25519 <your-public-key-here>"
InitPublicKey(signing) == OrElse(signing.publicKey, KeyPlaceholder)

\* ...(signing.fingerprint ? { fingerprint: signing.fingerprint } : {})
InitFingerprint(signing) ==
  IF signing.fingerprint # None /\ Len(Get(signing.fingerprint)) > 0
  THEN Some(YamlText(Get(signing.fingerprint)))
  ELSE None

\* The manifest init writes, as it is read back from .collab/manifest.yaml
InitManifest(repoName, hub, maintainerHandle, signing) ==
  Some([ schemaVersion |-> Some(YamlText(SchemaVersion)),
         name          |-> Some(YamlText(repoName)),
         hub           |-> Some(YamlText(hub)),
         project       |-> Some(YamlText(repoName)),
         maintainer    |-> Some(YamlText(maintainerHandle)),
         license       |-> Some(YamlText(LicenseMIT)),
         identity      |-> Some([ handle      |-> Some(YamlText(maintainerHandle)),
                                  publicKey   |-> Some(YamlText(InitPublicKey(signing))),
                                  fingerprint |-> InitFingerprint(signing) ]),
         security      |-> Some([ reflexes |-> Some(
                            [ signing         |-> Some(signing.gpgSign),
                              secretScanning  |-> Some(FALSE),
                              sandboxEnforcer |-> Some(FALSE),
                              contentFilter   |-> Some(FALSE) ]) ]),
         status        |-> Some([ test        |-> Some(YamlText(<<"b","u","n"," ","t","e","s","t">>)),
                                  healthCheck |-> None ]) ])

\* The status init writes; now is the reading of new Date()
InitStatus(now) ==
  Some([ schemaVersion |-> Some(YamlText(SchemaVersion)),
         generatedAt   |-> Some(DateText(now)),
         generatedBy   |-> Some(YamlText(TxtTool)),
         phase         |-> Some(YamlText(<<"s","p","e","c","i","f","y">>)),
         tests         |-> Some([passing |-> Some(0), failing |-> Some(0)]),
         git           |-> Some([ branch       |-> Some(YamlText(BranchMain)),
                                  lastCommit   |-> Some(DateText(now)),
                                  dirty        |-> Some(FALSE),
                                  behindRemote |-> Some(0) ]) ])

\* The mutant of the operator document whose handle is the display name.
InitOperatorHandleFromName(hub, maintainerHandle, displayName, ghHandle, signing, now) ==
  Some([ schemaVersion |-> Some(YamlText(SchemaVersion)),
         handle        |-> Some(YamlText(displayName)),
         name          |-> Some(YamlText(displayName)),
         signing       |-> Some([ publicKey   |-> Some(YamlText(InitPublicKey(signing))),
                                  fingerprint |-> InitFingerprint(signing) ]),
         identities    |-> Some(<<>>),
         skills        |-> Some(<<>>),
         availability  |-> Some(YamlText(TxtOpen)),
         hives         |-> Some(<<>>) ])

\* The operator document init writes (the hive entry's identity_provider,
\* an optional text no rule constrains, is left out)
InitOperator(hub, maintainerHandle, displayName, ghHandle, signing, now) ==
  Some([ schemaVersion |-> Some(YamlText(SchemaVersion)),
         handle        |-> Some(YamlText(maintainerHandle)),
         name          |-> Some(YamlText(displayName)),
         signing       |-> Some([ publicKey   |-> Some(YamlText(InitPublicKey(signing))),
                                  fingerprint |-> InitFingerprint(signing) ]),
         identities    |-> Some(IF ghHandle = None THEN <<>>
                                ELSE << [ provider    |-> Some(YamlText(<<"g","i","t","h","u","b">>)),
                                          id          |-> Some(YamlText(Get(ghHandle))),
                                          verified    |-> Some(TRUE),
                                          verified_at |-> Some(DateText(now)) ] >>),
         skills        |-> Some(<<>>),
         availability  |-> Some(YamlText(TxtOpen)),
         hives         |-> Some(<< [ hive          |-> Some(YamlText(hub)),
                                     role          |-> Some(YamlText(<<"c","o","n","t","r","i","b","u","t","o","r">>)),
                                     trust_zone    |-> Some(YamlText(<<"u","n","t","r","u","s","t","e","d">>)),
                                     joined        |-> Some(DateText(now)),
                                     contributions |-> Some(0),
                                     reviews       |-> Some(0),
                                     swarms        |-> Some(0) ] >>) ])

\* The action of init: it throws when the directory is no git repository,
\* when --hub is not org/repo, or when .collab/ exists without --overwrite;
\* otherwise it reads the git configuration and writes the three documents.
\* env records the configuration read and the three files as they read back.
initRun ==
  /\ cmd = "init"
  /\ pc = "start"
  /\ \E isGitRepo \in BOOLEAN, hub \in {HubOk, HubBad},
        collabExists \in BOOLEAN, overwrite \in BOOLEAN :
       IF ~isGitRepo
       THEN Abort("Not a git repository") /\ UNCHANGED env
       ELSE IF ~MatchesOrgRepo(hub)
       THEN Abort("Invalid hub format") /\ UNCHANGED env
       ELSE IF collabExists /\ ~overwrite
       THEN Abort(".collab/ already exists") /\ UNCHANGED env
       ELSE \E project \in {None, Some(ProjX)},
               gitUserName \in {None, Some(HandleBo), Some(GitNameAlSmith)},
               name \in {None, Some(HandleAlCapital)},
               signing \in InitSigningConfigs,
               ghHandle \in {None, Some(HandleAl)},
               now \in NowSamples :
              LET repoName         == OrElse(project, ProjY)
                  gitName          == OrElse(gitUserName, TxtOperator)
                  displayName      == OrElse(name, gitName)
                  maintainerHandle == maintainerHandleOf(ghHandle, gitUserName)
              IN /\ env' = << Read(<<>>, "git config", signing),
                              Read(<<>>, "manifest.yaml",
                                   Doc(InitManifest(repoName, hub, maintainerHandle, signing))),
                              Read(<<>>, "status.yaml", Doc(InitStatus(now))),
                              Read(<<>>, "operator.yaml",
                                   Doc(InitOperator(hub, maintainerHandle, displayName,
                                                    ghHandle, signing, now))) >>
                 /\ pc' = "written"
                 /\ UNCHANGED << exitCode, report >>
  /\ UNCHANGED << cmd, json, strict, results, manifest, status, operator,
                  projects, idx, spokes, counters, failLog, allowedSigners,
                  verifyResults >>

\* validate run right after init, on the documents init wrote and under
\* the git configuration init read: the three documents, the signing
\* check, the cross-file check and the summary
initValidate ==
  /\ cmd = "init"
  /\ pc = "written"
  /\ \E now \in NowSamples :
       /\ now >= Get(Get(env[3].doc.raw).generatedAt).ms
       /\ LET mo  == validateManifestOutcome(env[2].doc)
              so  == validateStatusOutcome(env[3].doc, now)
              oo  == validateOperatorOutcome(env[4].doc)
              res == [ errors   |-> mo.errors \o so.errors \o oo.errors
                                    \o validateCrossFileErrors(mo.value, oo.value),
                       warnings |-> mo.warnings \o so.warnings \o oo.warnings
                                    \o validateSigningWarnings(mo.value, env[1].doc) ]
          IN /\ manifest' = mo.value
             /\ status' = so.value
             /\ operator' = oo.value
             /\ results' = res
             /\ exitCode' = validateSummaryOutcome(res, strict, exitCode).exitCode
             /\ report' = Some([ kind   |-> "result",
                                 passed |-> validateSummaryOutcome(res, strict, exitCode).passed ])
  /\ pc' = "validated"
  /\ UNCHANGED << cmd, json, strict, env, projects, idx, spokes, counters,
                  failLog, allowedSigners, verifyResults >>

NextInit ==
  \/ initRun
  \/ initValidate

InitInit == InitFor({"init"})

SpecInit == InitInit /\ [][NextInit]_vars

(* ------------------------------------------------------------------ *)
(* Every command                                                       *)
(* ------------------------------------------------------------------ *)

Init ==
  InitFor({"validate", "pullLocal", "pullRemote", "verifyLocal", "verifyRemote", "init"})

Next ==
  \/ validateStart
  \/ validateManifest
  \/ validateStatus
  \/ validateOperator
  \/ validateSigning
  \/ validateCrossFile
  \/ validateSummary
  \/ pullStart
  \/ pullLocalStep
  \/ pullRemoteStep
  \/ pullFinish
  \/ verifyStart
  \/ verifyLocalStep
  \/ verifyRemoteStep
  \/ verifyFinish
  \/ initRun
  \/ initValidate

Spec == Init /\ [][Next]_vars

(* ================================================================== *)
(* Claims                                                              *)
(* ================================================================== *)

\* The reads of env that found a manifest document (the file was there, the
\* fetch gave content), as indices into env
ManifestReads ==
  { i \in 1..Len(env) : env[i].file = "manifest.yaml"
                        /\ env[i].doc.kind \in {"doc", "yamlError"} }

\* The document decodes and passes ManifestSchema
ValidManifestDoc(doc) == doc.kind = "doc" /\ ManifestSchemaIssues(doc.raw) = <<>>

\* The names of the projects failLog lists
FailedProjects == { failLog[i] : i \in 1..Len(failLog) }

\* The reads of valid manifests, in the order the run made them
RECURSIVE ValidReadsFrom(_)
ValidReadsFrom(i) ==
  IF i > Len(env) THEN <<>>
  ELSE (IF i \in ManifestReads /\ ValidManifestDoc(env[i].doc) THEN <<env[i]>> ELSE <<>>)
       \o ValidReadsFrom(i + 1)

\* C1: a pull run that met a spoke whose manifest is unparseable or fails
\* the schema is not aborted, and ends with a final report that holds one
\* SpokeEntry for every spoke whose manifest is valid, in order, and with a
\* failure recorded for every bad spoke (a fail line naming it, or a
\* declared spoke counted without an entry).
C1_PartialFailureIsolation ==
  (cmd \in {"pullLocal", "pullRemote"}
   /\ \E i \in ManifestReads : ~ValidManifestDoc(env[i].doc))
  => /\ pc # "aborted"
     /\ pc = "done" =>
          LET valid == ValidReadsFrom(1) IN
          /\ report # None /\ Get(report).kind # "error"
          /\ Len(spokes) = Len(valid)
          /\ \A k \in 1..Len(valid) :
               k <= Len(spokes)
               /\ spokes[k].project = Get(Get(valid[k].doc.raw).project)
          /\ \A i \in ManifestReads :
               ~ValidManifestDoc(env[i].doc) =>
                 \/ env[i].project \in FailedProjects
                 \/ counters.withCollab > Len(spokes)

\* C2: in remote pull and remote verify, once a project's documents are
\* being retrieved the run is never left through the error handler: no
\* retrieval or decoding failure sets the exit code or replaces the final
\* report by an error.
C2_RemoteFailureIsolation ==
  (cmd \in {"pullRemote", "verifyRemote"} /\ env # <<>>)
  => /\ pc # "aborted"
     /\ exitCode = 0
     /\ (report # None => Get(report).kind # "error")

\* C3: the entry the local pull pushes has stale = true when the spoke has
\* no Status, and otherwise stale says whether now - generatedAt exceeds
\* 604,800,000 ms, strictly.
C3_Staleness ==
  [][ (cmd = "pullLocal" /\ Len(spokes') = Len(spokes) + 1)
      => LET e == spokes'[Len(spokes')] IN
         e.stale = (IF status' = None THEN TRUE
                    ELSE PullNow - Get(status').generatedAt.ms > 604800000) ]_vars

\* C3 witness: one run has pushed an entry exactly 7 days old that is not
\* stale, one 7 days and 1 second old that is stale, and one without Status
\* that is stale.
C3_Witness ==
  /\ cmd = "pullLocal"
  /\ \E i, j, k \in 1..Len(spokes) :
       /\ spokes[i].generatedAt = DateText(PullNow - 604800000) /\ ~spokes[i].stale
       /\ spokes[j].generatedAt = DateText(PullNow - 604800000 - 1000) /\ spokes[j].stale
       /\ spokes[k].generatedAt = NonDate(TxtNever) /\ spokes[k].stale

\* The maximal runs of non-blank characters of s, in order
RECURSIVE TokensFrom(_, _, _)
TokensFrom(s, done, cur) ==
  IF s = <<>> THEN (IF cur = <<>> THEN done ELSE Append(done, cur))
  ELSE IF Head(s) \in {" ", "\t", "\r", "\n"}
       THEN TokensFrom(Tail(s), IF cur = <<>> THEN done ELSE Append(done, cur), <<>>)
       ELSE TokensFrom(Tail(s), done, Append(cur, Head(s)))

Tokens(s) == TokensFrom(s, <<>>, <<>>)

\* Rule (a) or rule (b) of trust matching holds between a spoke key and a
\* registry entry
EntryMatches(spokeKey, entry) ==
  LET keyData == SubSeq(entry.publicKey, Len(entry.keyType) + 2, Len(entry.publicKey))
      spokeTokens == Tokens(spokeKey)
      entryTokens == Tokens(entry.publicKey)
  IN \/ StartsWith(spokeKey, entry.keyType \o <<" ">> \o keyData)
     \/ /\ Len(spokeTokens) >= 2
        /\ Len(entryTokens) >= 2
        /\ SubSeq(spokeTokens, 1, 2) = SubSeq(entryTokens, 1, 2)

\* Every ordering of the entries of a registry
Orderings(registry) ==
  { [i \in 1..Len(registry) |-> registry[f[i]]] :
      f \in { g \in [1..Len(registry) -> 1..Len(registry)] :
                \A a, b \in 1..Len(registry) : g[a] = g[b] => a = b } }

\* The manifest read a VerifyResult was made from, as an index into env
ReadOfResult(r) ==
  CHOOSE i \in 1..Len(env) : env[i].project = r.project /\ env[i].file = "manifest.yaml"

\* The VerifyResults made from a manifest that passed the schema
ValidResults ==
  { i \in 1..Len(verifyResults) : ValidManifestDoc(env[ReadOfResult(verifyResults[i])].doc) }

SpokeKeyOf(r) == Get(Get(Get(env[ReadOfResult(r)].doc.raw).identity).publicKey)

SpokeFingerprintOf(r) == Get(Get(env[ReadOfResult(r)].doc.raw).identity).fingerprint

\* C4: the local verifier reports a spoke key as matched iff some registry
\* entry satisfies rule (a), the key starts with the entry's "<keyType>
\* <keyData>", or rule (b), the first two whitespace-separated tokens of
\* both are identical; and the matching loop gives that same verdict on
\* every ordering of the registry.
C4_TrustMatching ==
  cmd = "verifyLocal" =>
    \A i \in ValidResults :
      LET r == verifyResults[i]
          expected == \E k \in 1..Len(allowedSigners) :
                        EntryMatches(SpokeKeyOf(r), allowedSigners[k])
      IN /\ r.inAllowedSigners = expected
         /\ r.keyMatch = expected
         /\ \A registry \in Orderings(allowedSigners) :
              LocalKeyMatch(SpokeKeyOf(r), registry) = expected

\* C4 witness: against a registry of two entries, one spoke matched by the
\* token rule alone, one by the prefix rule alone, and one did not match.
C4_Witness ==
  /\ cmd = "verifyLocal"
  /\ Len(allowedSigners) = 2
  /\ \E i, j, k \in ValidResults :
       /\ SpokeKeyOf(verifyResults[i]) = KeyATwoBlanks
       /\ verifyResults[i].inAllowedSigners
       /\ SpokeKeyOf(verifyResults[j]) = KeyALonger
       /\ verifyResults[j].inAllowedSigners
       /\ SpokeKeyOf(verifyResults[k]) = KeyBare
       /\ ~verifyResults[k].inAllowedSigners

\* C5: a VerifyResult made from a schema-valid Manifest has no issue iff
\* its key matched a registry entry and the Manifest carries a fingerprint;
\* its issues are the not-in-allowed-signers issue when the key did not
\* match, followed by the no-fingerprint issue when there is no
\* fingerprint, and nothing else.
C5_VerificationVerdict ==
  cmd \in {"verifyLocal", "verifyRemote"} =>
    \A i \in ValidResults :
      LET r == verifyResults[i]
          hasFingerprint == SpokeFingerprintOf(r) # None
          notInSigners == IF cmd = "verifyLocal" THEN IssueNotInSignersLocal
                          ELSE IssueNotInSignersRemote
      IN /\ (r.issues = <<>>) <=> (r.inAllowedSigners /\ hasFingerprint)
         /\ r.fingerprint = SpokeFingerprintOf(r)
         /\ r.issues = (IF r.inAllowedSigners THEN <<>> ELSE <<notInSigners>>)
                       \o (IF hasFingerprint THEN <<>> ELSE <<IssueNoFingerprint>>)

\* C5 witness: a local run holds a verified spoke, a spoke with both issues
\* in order, and a spoke whose key matched but that has no fingerprint.
C5_Witness ==
  /\ cmd = "verifyLocal"
  /\ \E i, j, k \in ValidResults :
       /\ verifyResults[i].issues = <<>>
       /\ verifyResults[j].issues = <<IssueNotInSignersLocal, IssueNoFingerprint>>
       /\ verifyResults[k].issues = <<IssueNoFingerprint>>
       /\ verifyResults[k].inAllowedSigners

\* The findings of list that carry the given source and path
FindingsAt(list, source, path) ==
  { i \in 1..Len(list) : list[i].source = source /\ list[i].path = path }

\* The findings of list that carry the given source
FindingsOf(list, source) ==
  { i \in 1..Len(list) : list[i].source = source }

\* validate has passed the cross-file check with both documents available
BothAvailable ==
  cmd = "validate" /\ pc \in {"summary", "done"} /\ manifest # None /\ operator # None

HandlesDisagree == Get(manifest).identity.handle # Get(operator).handle

KeysDisagree == Get(manifest).identity.publicKey # Get(operator).signing.publicKey

\* C6: when validateCrossFile runs with the manifest unavailable or the
\* operator unavailable, it leaves the validation result (errors and
\* warnings) exactly as it found it.
C6_CrossFileSkipsWhenMissing ==
  [][ (cmd = "validate" /\ pc = "crossfile" /\ pc' = "summary"
       /\ (manifest = None \/ operator = None))
      => results' = results ]_vars

\* C6 witness: the cross-file check has run with a valid manifest and no
\* operator, and recorded no cross-file finding.
C6_Witness ==
  /\ cmd = "validate" /\ pc = "summary"
  /\ manifest # None /\ operator = None
  /\ FindingsOf(results.errors, "cross-file") = {}

\* C7: with both documents available, the cross-file check records exactly
\* one handle-mismatch error iff the handles differ (as exact, case-sensitive
\* text), exactly one key-mismatch error iff the public keys differ, nothing
\* else, and no warning.
C7_CrossFileRulesIndependent ==
  BothAvailable =>
    /\ Cardinality(FindingsAt(results.errors, "cross-file", "handle"))
         = (IF HandlesDisagree THEN 1 ELSE 0)
    /\ Cardinality(FindingsAt(results.errors, "cross-file", "publicKey"))
         = (IF KeysDisagree THEN 1 ELSE 0)
    /\ Cardinality(FindingsOf(results.errors, "cross-file"))
         = (IF HandlesDisagree THEN 1 ELSE 0) + (IF KeysDisagree THEN 1 ELSE 0)
    /\ FindingsOf(results.warnings, "cross-file") = {}

\* C7 witness: handles differ only in case and the keys agree: one
\* handle-mismatch error, no key-mismatch error.
C7_Witness ==
  /\ BothAvailable
  /\ Get(manifest).identity.handle = HandleAl
  /\ Get(operator).handle = HandleAlCapital
  /\ ~KeysDisagree
  /\ Cardinality(FindingsOf(results.errors, "cross-file")) = 1

\* C8: a validate run in which a valid manifest and a valid operator
\* disagree on handle or public key ends with the mismatch in errors, not in
\* warnings, and with exit code 1, whatever --strict is.
C8_MismatchIsHardError ==
  (BothAvailable /\ pc = "done" /\ (HandlesDisagree \/ KeysDisagree)) =>
    /\ FindingsOf(results.errors, "cross-file") # {}
    /\ FindingsOf(results.warnings, "cross-file") = {}
    /\ exitCode = 1
    /\ report = Some([kind |-> "result", passed |-> FALSE])

\* C8 witness: a --strict run with warnings and a key mismatch as its only
\* error ends with exit code 1.
C8_Witness ==
  /\ BothAvailable /\ pc = "done" /\ strict
  /\ KeysDisagree /\ ~HandlesDisagree
  /\ Len(results.warnings) > 0
  /\ Len(results.errors) = 1
  /\ exitCode = 1

\* C9: at the end of validate the exit code is 1 iff an error was recorded,
\* 2 iff none was, --strict is set and a warning was recorded, and otherwise
\* it is unset (0) and the run is reported compliant.
C9_ExitSignals ==
  (cmd = "validate" /\ pc = "done") =>
    LET hasErrors   == Len(results.errors) > 0
        hasWarnings == Len(results.warnings) > 0
    IN /\ (exitCode = 1) <=> hasErrors
       /\ (exitCode = 2) <=> (~hasErrors /\ strict /\ hasWarnings)
       /\ exitCode \in {0, 1, 2}
       /\ report = Some([kind |-> "result", passed |-> (exitCode = 0)])

\* C9 witness: warnings only, no --strict: compliant, no failure signal.
C9_Witness ==
  /\ cmd = "validate" /\ pc = "done"
  /\ ~strict
  /\ Len(results.errors) = 0
  /\ Len(results.warnings) > 0
  /\ exitCode = 0
  /\ report = Some([kind |-> "result", passed |-> TRUE])

\* Every constraint of the Manifest schema, stated on a typed Manifest
ManifestWellFormed(m) ==
  /\ m.schemaVersion = <<"1", ".", "0">>
  /\ Len(m.name) >= 1
  /\ \E i \in 2..(Len(m.hub) - 1) :
       /\ m.hub[i] = "/"
       /\ \A j \in 1..(i - 1) : m.hub[j] \in WordChar \cup {"-"}
       /\ \A j \in (i + 1)..Len(m.hub) : m.hub[j] \in WordChar \cup {"-", "."}
  /\ Len(m.project) >= 1
  /\ Len(m.maintainer) >= 1
  /\ \A j \in 1..Len(m.maintainer) : m.maintainer[j] \in Upper \cup Lower \cup Digit \cup {"-"}
  /\ m.license \in { <<"M","I","T">>,
                     <<"A","p","a","c","h","e","-","2",".","0">>,
                     <<"B","S","D","-","2","-","C","l","a","u","s","e">>,
                     <<"B","S","D","-","3","-","C","l","a","u","s","e">>,
                     <<"C","C","-","B","Y","-","4",".","0">>,
                     <<"A","G","P","L","-","3",".","0">> }
  /\ Len(m.identity.handle) >= 1
  /\ Len(m.identity.publicKey) >= 12
  /\ SubSeq(m.identity.publicKey, 1, 12) = <<"s","s","h","-","e","d","2","5","5","1","9"," ">>
  /\ m.identity.fingerprint # None =>
       LET fp == Get(m.identity.fingerprint) IN
       /\ Len(fp) >= 8
       /\ SubSeq(fp, 1, 7) = <<"S","H","A","2","5","6",":">>
       /\ \A j \in 8..Len(fp) : fp[j] \in Upper \cup Lower \cup Digit \cup {"+", "/", "="}
  /\ \A f \in {"signing", "secretScanning", "sandboxEnforcer", "contentFilter"} :
       m.security.reflexes[f] \in BOOLEAN
  /\ m.status # None =>
       /\ Get(m.status).test # None => Len(Get(Get(m.status).test)) >= 1
       /\ Get(m.status).healthCheck # None => Len(Get(Get(m.status).healthCheck)) >= 1

\* The document is a YAML mapping whose typed reading is the given Manifest
DocReadsAs(doc, m) ==
  /\ doc.kind = "doc"
  /\ doc.raw # None
  /\ Get(doc.raw).project = Some(m.project)
  /\ Get(doc.raw).license = Some(m.license)
  /\ Get(doc.raw).hub = Some(m.hub)
  /\ Get(doc.raw).identity # None
  /\ Get(Get(doc.raw).identity).publicKey = Some(m.identity.publicKey)

\* The last manifest document the run has read
LastManifestRead ==
  env[CHOOSE i \in ManifestReads : \A j \in ManifestReads : j <= i]

\* C10: in validate, pull and verify the handler's manifest, the only
\* Manifest the cross-file check, the fingerprint cross-check, SpokeEntry
\* construction and key matching are given, is either absent or the typed
\* reading of the last manifest document read and satisfies every schema
\* constraint; entries and verify results are made from such Manifests only.
C10_NoPartiallyValidManifest ==
  /\ manifest # None =>
       /\ ManifestWellFormed(Get(manifest))
       /\ ManifestReads # {}
       /\ DocReadsAs(LastManifestRead.doc, Get(manifest))
  /\ \A i \in 1..Len(spokes) :
       /\ spokes[i].license \in ACCEPTED_LICENSES
       /\ Len(spokes[i].project) >= 1
       /\ MatchesHandle(spokes[i].maintainer)
  /\ \A i \in 1..Len(verifyResults) :
       verifyResults[i].issues # <<IssueInvalidManifest>> =>
         /\ Len(verifyResults[i].handle) >= 1
         /\ ManifestWellFormed(
              ManifestSchemaParse(env[ReadOfResult(verifyResults[i])].doc.raw))

\* C10 witness: a pull run has made an entry from a valid manifest and has
\* then read a manifest document that violates a constraint: the handler
\* holds no Manifest and no entry was added.
C10_Witness ==
  /\ cmd = "pullLocal"
  /\ manifest = None
  /\ Len(spokes) = 1
  /\ ManifestReads # {}
  /\ LastManifestRead.doc.kind = "doc"
  /\ LastManifestRead.doc.raw # None
  /\ Get(LastManifestRead.doc.raw).license = Some(LicenseGPL)

\* One slash, an owner of word characters and dashes before it, a repo of
\* word characters, dots and dashes after it
HubShape(s) ==
  /\ Cardinality({i \in 1..Len(s) : s[i] = "/"}) = 1
  /\ LET slash == CHOOSE i \in 1..Len(s) : s[i] = "/" IN
     /\ slash > 1
     /\ slash < Len(s)
     /\ \A j \in 1..(slash - 1) : s[j] \in WordChar \cup {"-"}
     /\ \A j \in (slash + 1)..Len(s) : s[j] \in WordChar \cup {".", "-"}

\* The dotted paths of the fields of a raw manifest mapping that violate
\* their constraint, each field judged on its own
ManifestViolatedPaths(r) ==
  { p \in { "schemaVersion", "name", "hub", "project", "maintainer", "license",
            "identity", "identity.handle", "identity.publicKey" } :
      \/ p = "schemaVersion" /\ r.schemaVersion # Some(<<"1", ".", "0">>)
      \/ p = "name" /\ (r.name = None \/ r.name = Some(<<>>))
      \/ p = "hub" /\ (r.hub = None \/ ~HubShape(Get(r.hub)))
      \/ p = "project" /\ (r.project = None \/ r.project = Some(<<>>))
      \/ p = "maintainer"
           /\ (r.maintainer = None \/ r.maintainer = Some(<<>>)
               \/ \E j \in 1..Len(Get(r.maintainer)) :
                    Get(r.maintainer)[j] \notin Upper \cup Lower \cup Digit \cup {"-"})
      \/ p = "license" /\ (r.license = None \/ Get(r.license) \notin ACCEPTED_LICENSES)
      \/ p = "identity" /\ r.identity = None
      \/ p = "identity.handle" /\ r.identity # None
           /\ (Get(r.identity).handle = None \/ Get(r.identity).handle = Some(<<>>))
      \/ p = "identity.publicKey" /\ r.identity # None
           /\ (Get(r.identity).publicKey = None
               \/ Len(Get(Get(r.identity).publicKey)) < 12
               \/ SubSeq(Get(Get(r.identity).publicKey), 1, 12)
                    # <<"s","s","h","-","e","d","2","5","5","1","9"," ">>) }

\* The dotted paths of the fields of a raw status mapping that violate their
\* constraint
StatusViolatedPaths(r) ==
  { p \in { "schemaVersion", "generatedAt", "generatedBy", "phase", "tests",
            "tests.passing", "tests.failing", "git", "git.lastCommit" } :
      \/ p = "schemaVersion" /\ r.schemaVersion # Some(<<"1", ".", "0">>)
      \/ p = "generatedAt" /\ (r.generatedAt = None \/ ~Get(r.generatedAt).parses)
      \/ p = "generatedBy" /\ (r.generatedBy = None \/ r.generatedBy = Some(<<>>))
      \/ p = "phase" /\ (r.phase = None \/ Get(r.phase) \notin LIFECYCLE_PHASES)
      \/ p = "tests" /\ r.tests = None
      \/ p = "tests.passing" /\ r.tests # None
           /\ (Get(r.tests).passing = None \/ Get(Get(r.tests).passing) < 0)
      \/ p = "tests.failing" /\ r.tests # None
           /\ (Get(r.tests).failing = None \/ Get(Get(r.tests).failing) < 0)
      \/ p = "git" /\ r.git = None
      \/ p = "git.lastCommit" /\ r.git # None
           /\ (Get(r.git).lastCommit = None \/ ~Get(Get(r.git).lastCommit).parses) }

\* The document validate read from the given file, once it has read it
ValidateDocsOf(file) ==
  { env[i].doc : i \in { j \in 1..Len(env) : env[j].file = file } }

\* C11: when validate has read a manifest or a status mapping, every field
\* of it that violates its constraint has an error of its own carrying the
\* field's dotted path, so that k violated fields give at least k errors for
\* that file.
C11_NotFailFast ==
  cmd = "validate" =>
    /\ \A doc \in ValidateDocsOf("manifest.yaml") :
         (doc.kind = "doc" /\ doc.raw # None) =>
           /\ \A p \in ManifestViolatedPaths(Get(doc.raw)) :
                FindingsAt(results.errors, "manifest.yaml", p) # {}
           /\ Cardinality(FindingsOf(results.errors, "manifest.yaml"))
                >= Cardinality(ManifestViolatedPaths(Get(doc.raw)))
    /\ \A doc \in ValidateDocsOf("status.yaml") :
         (doc.kind = "doc" /\ doc.raw # None) =>
           /\ \A p \in StatusViolatedPaths(Get(doc.raw)) :
                FindingsAt(results.errors, "status.yaml", p) # {}
           /\ Cardinality(FindingsOf(results.errors, "status.yaml"))
                >= Cardinality(StatusViolatedPaths(Get(doc.raw)))

\* C11 witness: validate has read a manifest with three violated fields
\* (hub, license, identity.publicKey) and holds three manifest errors.
C11_Witness ==
  /\ cmd = "validate"
  /\ \E doc \in ValidateDocsOf("manifest.yaml") :
       /\ doc.kind = "doc" /\ doc.raw # None
       /\ ManifestViolatedPaths(Get(doc.raw)) = {"hub", "license", "identity.publicKey"}
  /\ Cardinality(FindingsOf(results.errors, "manifest.yaml")) = 3

\* The issues of the one document the schema was applied to, at a path
SchemaIssuesAt(path) ==
  { i \in 1..Len(results.errors) : results.errors[i].path = path }

\* The six licenses a Manifest may carry
SixLicenses ==
  { <<"M","I","T">>,
    <<"A","p","a","c","h","e","-","2",".","0">>,
    <<"B","S","D","-","2","-","C","l","a","u","s","e">>,
    <<"B","S","D","-","3","-","C","l","a","u","s","e">>,
    <<"C","C","-","B","Y","-","4",".","0">>,
    <<"A","G","P","L","-","3",".","0">> }

\* The key text begins with the Ed25519 type name and a blank
BeginsEd25519(k) ==
  /\ Len(k) >= 12
  /\ SubSeq(k, 1, 12) = <<"s","s","h","-","e","d","2","5","5","1","9"," ">>

\* C12: when ManifestSchema has been applied to a manifest, a missing hub or
\* a hub that is not of the owner/repo shape gives an issue at "hub", a
\* license outside the six accepted ones gives an issue at "license", and a
\* public key that does not begin with "ssh-ed25519 " gives an issue at
\* "identity.publicKey"; each of these makes the parse fail.  A manifest
\* with none of these faults parses, and it still parses with its license
\* replaced by any other of the six.
C12_ManifestFieldRules ==
  (cmd = "schema" /\ pc # "start" /\ env[1].file = "manifest") =>
    LET r == Get(env[1].doc.raw)
        hubBad == r.hub = None \/ ~HubShape(Get(r.hub))
        licenseBad == r.license = None \/ Get(r.license) \notin SixLicenses
        keyBad == Get(r.identity).publicKey = None
                    \/ ~BeginsEd25519(Get(Get(r.identity).publicKey))
    IN /\ hubBad => (manifest = None /\ SchemaIssuesAt("hub") # {})
       /\ licenseBad => (manifest = None /\ SchemaIssuesAt("license") # {})
       /\ keyBad => (manifest = None /\ SchemaIssuesAt("identity.publicKey") # {})
       /\ (~hubBad /\ ~licenseBad /\ ~keyBad) =>
            /\ manifest # None
            /\ results.errors = <<>>
            /\ \A l \in SixLicenses :
                 ManifestSafeParse(Some([r EXCEPT !.license = Some(l)])).success

\* C12 witness: a manifest with a hub of two slashes was rejected with an
\* issue at "hub" and no other issue
C12_Witness ==
  /\ cmd = "schema"
  /\ pc # "start"
  /\ env[1].file = "manifest"
  /\ Get(env[1].doc.raw).hub = Some(<<"o","/","r","/","x">>)
  /\ manifest = None
  /\ Len(results.errors) = 1
  /\ results.errors[1].path = "hub"

\* The seven lifecycle phases a Status may carry
SevenPhases ==
  { <<"s","p","e","c","i","f","y">>,
    <<"b","u","i","l","d">>,
    <<"h","a","r","d","e","n">>,
    <<"c","o","n","t","r","i","b","-","p","r","e","p">>,
    <<"r","e","v","i","e","w">>,
    <<"s","h","i","p","p","e","d">>,
    <<"e","v","o","l","v","i","n","g">> }

\* C13: when StatusSchema has been applied to a status whose other fields
\* are valid, it parses exactly when its phase is one of the seven lifecycle
\* phases; a negative tests.passing or tests.failing, or a generatedAt that
\* is not a date, makes the parse fail whatever the phase.
C13_StatusFieldRules ==
  (cmd = "schema" /\ pc # "start" /\ env[1].file = "status") =>
    LET r == Get(env[1].doc.raw)
        dateOk == r.generatedAt # None /\ Get(r.generatedAt).parses
        countsOk == /\ Get(Get(r.tests).passing) >= 0
                    /\ Get(Get(r.tests).failing) >= 0
        phaseOk == r.phase # None /\ Get(r.phase) \in SevenPhases
    IN /\ (dateOk /\ countsOk) => (status # None <=> phaseOk)
       /\ ~countsOk => status = None
       /\ ~dateOk => status = None

\* C13 witness: a status that is valid but for a failing count of -1 was
\* rejected, with its only issue at tests.failing
C13_Witness ==
  /\ cmd = "schema"
  /\ pc # "start"
  /\ env[1].file = "status"
  /\ Get(env[1].doc.raw).phase = Some(<<"c","o","n","t","r","i","b","-","p","r","e","p">>)
  /\ Get(Get(env[1].doc.raw).tests) = [passing |-> Some(2), failing |-> Some(-1)]
  /\ status = None
  /\ Len(results.errors) = 1
  /\ results.errors[1].path = "tests.failing"

\* The typed value the first application of the schema returned
SchemaFirstData ==
  IF env[1].file = "manifest" THEN manifest
  ELSE IF env[1].file = "status" THEN status
  ELSE operator

SignerLinesRead == SplitLines(env[1].doc)

\* The first character of a line that is not a blank, if it has one
FirstNonBlank(line) ==
  IF \E i \in 1..Len(line) : line[i] \notin {" ", "\t", "\r"}
  THEN Some(line[CHOOSE i \in 1..Len(line) :
                   /\ line[i] \notin {" ", "\t", "\r"}
                   /\ \A j \in 1..(i - 1) : line[j] \in {" ", "\t", "\r"}])
  ELSE None

\* The lines that remain: not blank, not a comment, three tokens or more
AcceptedLineIndexes ==
  { k \in 1..Len(SignerLinesRead) :
      /\ FirstNonBlank(SignerLinesRead[k]) # None
      /\ FirstNonBlank(SignerLinesRead[k]) # Some("#")
      /\ Len(Tokens(SignerLinesRead[k])) >= 3 }

\* C15: when parseAllowedSigners (of either verifier) has been applied to a
\* file, it has returned a registry; every entry of the registry is keyed
\* by the first token of a line that is not blank, not a '#' line and has
\* three tokens or more, no two entries share a key, and the registry has at
\* most as many entries as there are such lines.
C15_SignersParsingTolerant ==
  (cmd \in {"signersLocal", "signersRemote"} /\ pc = "done") =>
    /\ \A i \in 1..Len(allowedSigners) :
         \E k \in AcceptedLineIndexes :
           Tokens(SignerLinesRead[k])[1] = allowedSigners[i].email
    /\ \A i, j \in 1..Len(allowedSigners) :
         allowedSigners[i].email = allowedSigners[j].email => i = j
    /\ Len(allowedSigners) <= Cardinality(AcceptedLineIndexes)

\* C15 witness: a file of a comment of three tokens and a line of two tokens
\* was parsed into the empty registry
C15_Witness ==
  /\ cmd = "signersLocal"
  /\ pc = "done"
  /\ Len(SignerLinesRead) = 2
  /\ SignerLinesRead[1] = <<"#","a","l"," ","s","s","h","-","e","d","2","5","5","1","9"," ","A","A">>
  /\ SignerLinesRead[2] = <<"a","l"," ","s","s","h","-","e","d","2","5","5","1","9">>
  /\ allowedSigners = <<>>

\* Tokens joined again, one blank between two
RECURSIVE Rejoin(_)
Rejoin(tokens) ==
  IF tokens = <<>> THEN <<>>
  ELSE IF Len(tokens) = 1 THEN tokens[1]
  ELSE tokens[1] \o <<" ">> \o Rejoin(Tail(tokens))

\* C16: when parseAllowedSigners has been applied to a file, then for each
\* accepted line (the last one, where several have the same first token)
\* the registry holds under the line's first token an entry whose keyType
\* is the second token and whose stored key is the keyType, a blank, and
\* the whole remainder of the line: every token from the third on, rejoined.
C16_WholeRemainderKept ==
  (cmd \in {"signersLocal", "signersRemote"} /\ pc = "done") =>
    \A k \in AcceptedLineIndexes :
      LET tokens == Tokens(SignerLinesRead[k]) IN
      (\A k2 \in AcceptedLineIndexes :
         Tokens(SignerLinesRead[k2])[1] = tokens[1] => k2 <= k) =>
        \E i \in 1..Len(allowedSigners) :
          /\ allowedSigners[i].email = tokens[1]
          /\ allowedSigners[i].keyType = tokens[2]
          /\ allowedSigners[i].publicKey =
               tokens[2] \o <<" ">> \o Rejoin(SubSeq(tokens, 3, Len(tokens)))

\* C17: a pull step (local or remote) that reads a valid manifest and finds
\* no Status for the spoke pushes exactly one entry, for that manifest's
\* project, with phase "unknown", tests 0/0, dirty false, behindRemote 0,
\* lastCommit "unknown", generatedAt "never" and stale = true; and a step
\* that reads a valid manifest and a valid Status pushes exactly one entry,
\* whether that Status is fresh or stale.
C17_DeclaredSpokeWithoutStatus ==
  [][ (/\ cmd \in {"pullLocal", "pullRemote"}
       /\ Len(env') >= Len(env) + 2
       /\ env'[Len(env')].file = "status.yaml"
       /\ env'[Len(env') - 1].file = "manifest.yaml"
       /\ env'[Len(env') - 1].doc.kind = "doc"
       /\ ManifestSchemaIssues(env'[Len(env') - 1].doc.raw) = <<>>)
      => LET statusRead == env'[Len(env')].doc
             e == spokes'[Len(spokes')]
         IN /\ statusRead.kind \in {"missing", "notFound"} =>
                 /\ Len(spokes') = Len(spokes) + 1
                 /\ SubSeq(spokes', 1, Len(spokes)) = spokes
                 /\ e.project = Get(Get(env'[Len(env') - 1].doc.raw).project)
                 /\ e.phase = <<"u","n","k","n","o","w","n">>
                 /\ e.tests = [passing |-> 0, failing |-> 0]
                 /\ e.dirty = FALSE
                 /\ e.behindRemote = 0
                 /\ e.lastCommit.text = <<"u","n","k","n","o","w","n">>
                 /\ e.generatedAt.text = <<"n","e","v","e","r">>
                 /\ e.stale = TRUE
            /\ (statusRead.kind = "doc" /\ StatusSchemaIssues(statusRead.raw) = <<>>) =>
                 /\ Len(spokes') = Len(spokes) + 1
                 /\ SubSeq(spokes', 1, Len(spokes)) = spokes
                 /\ e.project = Get(Get(env'[Len(env') - 1].doc.raw).project)
                 /\ e.generatedAt = Get(Get(statusRead.raw).generatedAt) ]_vars

\* C17 witness: a local run holds an entry with the defaults and stale, an
\* entry with a Status that is stale and an entry with a Status that is
\* fresh
C17_Witness ==
  /\ cmd = "pullLocal"
  /\ \E i, j, k \in 1..Len(spokes) :
       /\ spokes[i].generatedAt.text = <<"n","e","v","e","r">>
       /\ spokes[i].phase = <<"u","n","k","n","o","w","n">>
       /\ spokes[i].stale
       /\ spokes[j].generatedAt.parses /\ spokes[j].stale
       /\ spokes[k].generatedAt.parses /\ ~spokes[k].stale

\* The reads of a Status that is present but does not decode or fails
\* StatusSchema, made right after the read of a valid manifest
InvalidStatusReads ==
  { i \in 2..Len(env) :
      /\ env[i].file = "status.yaml"
      /\ \/ env[i].doc.kind = "yamlError"
         \/ env[i].doc.kind = "doc" /\ StatusSchemaIssues(env[i].doc.raw) # <<>>
      /\ env[i - 1].file = "manifest.yaml"
      /\ env[i - 1].doc.kind = "doc"
      /\ ManifestSchemaIssues(env[i - 1].doc.raw) = <<>> }

\* C18: a pull run that has read a valid manifest and, for the same spoke,
\* a Status that is present but unparseable or invalid, holds an entry for
\* that manifest's project carrying the Status defaults (phase "unknown",
\* generatedAt "never", stale).
C18_InvalidStatusDefaults ==
  cmd \in {"pullLocal", "pullRemote"} =>
    \A i \in InvalidStatusReads :
      \E k \in 1..Len(spokes) :
        /\ spokes[k].project = Get(Get(env[i - 1].doc.raw).project)
        /\ spokes[k].phase = <<"u","n","k","n","o","w","n">>
        /\ spokes[k].generatedAt.text = <<"n","e","v","e","r">>
        /\ spokes[k].stale

\* The manifest retrievals of the remote pull that ended as given
ManifestFetches(kind) ==
  { i \in 1..Len(env) : env[i].file = "manifest.yaml" /\ env[i].doc.kind = kind }

\* C19: in a remote pull, the counter of spokes without a declaration
\* counts the spokes whose repository was reached and holds no manifest,
\* and no others: a spoke whose repository could not be reached (network or
\* API failure) is not added to it.
C19_UnreachableCountedApart ==
  cmd = "pullRemote" =>
    counters.noCollab = Cardinality(ManifestFetches("notFound"))

\* Name a comes before name b: at the first place where they differ a has
\* the smaller code unit, or a ends there
Precedes(a, b) ==
  \E k \in 1..(Len(b)) :
    /\ k <= Len(a) + 1
    /\ SubSeq(a, 1, k - 1) = SubSeq(b, 1, k - 1)
    /\ (k = Len(a) + 1 \/ CodeUnit(a[k]) < CodeUnit(b[k]))

\* The manifest reads of a local pull that gave an entry, in the order of
\* the run: the manifest is valid and the Status is absent or valid
RECURSIVE EntrySourcesFrom(_)
EntrySourcesFrom(i) ==
  IF i >= Len(env) THEN <<>>
  ELSE (IF /\ env[i].file = "manifest.yaml"
           /\ ValidManifestDoc(env[i].doc)
           /\ env[i + 1].file = "status.yaml"
           /\ \/ env[i + 1].doc.kind = "missing"
              \/ env[i + 1].doc.kind = "doc" /\ StatusSchemaIssues(env[i + 1].doc.raw) = <<>>
        THEN <<env[i]>> ELSE <<>>)
       \o EntrySourcesFrom(i + 1)

\* C20: the entries of a local pull run stand in ascending order of the
\* spoke identifiers (the names under projects/) they were built for, and
\* the results of a local verify run stand in ascending order of their
\* spoke identifier, whatever the directory listing's order and whichever
\* spokes failed.
C20_ListsSortedBySpoke ==
  /\ cmd = "pullLocal" =>
       LET src == EntrySourcesFrom(1) IN
       /\ Len(spokes) = Len(src)
       /\ \A k \in 1..Len(src) :
            spokes[k].project = Get(Get(src[k].doc.raw).project)
       /\ \A k, l \in 1..Len(src) : k < l => Precedes(src[k].project, src[l].project)
  /\ cmd = "verifyLocal" =>
       \A k, l \in 1..Len(verifyResults) :
         k < l => Precedes(verifyResults[k].project, verifyResults[l].project)

\* C20 witness: a local pull over B, a and b, where the spoke a failed, has
\* ended with the entries of B and b in that order
C20_Witness ==
  /\ cmd = "pullLocal"
  /\ pc = "done"
  /\ projects = << <<"B">>, <<"a">>, <<"b">> >>
  /\ failLog = << <<"a">> >>
  /\ Len(spokes) = 2
  /\ EntrySourcesFrom(1)[1].project = <<"B">>
  /\ EntrySourcesFrom(1)[2].project = <<"b">>

\* The unrecoverable preconditions of a local command
Preconditions ==
  IF cmd = "pullLocal" THEN {"No projects/ directory found"}
  ELSE {"No projects/ directory found", "allowed-signers file not found"}

\* C21: a local pull or verify run is left through the error handler
\* exactly for a failed precondition (pull: no projects directory; verify:
\* no projects directory or no allowed-signers file): then no spoke has
\* been processed, nothing but the one error is reported and the exit code
\* is 1; a run that got past its preconditions is never left that way and
\* keeps exit code 0.
C21_TopLevelFailureOnlyForPreconditions ==
  cmd \in {"pullLocal", "verifyLocal"} =>
    /\ pc = "aborted" =>
         /\ report # None
         /\ Get(report).kind = "error"
         /\ Get(report).message \in Preconditions
         /\ exitCode = 1
         /\ env = <<>>
         /\ idx = 1
         /\ projects = <<>>
         /\ spokes = <<>>
         /\ verifyResults = <<>>
         /\ failLog = <<>>
         /\ counters = ZeroCounters
    /\ pc # "aborted" =>
         /\ exitCode = 0
         /\ report # None => Get(report).kind # "error"
    /\ (env # <<>> \/ projects # <<>>) => pc # "aborted"

\* C21 witness: a verify run stopped because there is no allowed-signers
\* file, with exit code 1 and no result
C21_Witness ==
  /\ cmd = "verifyLocal"
  /\ pc = "aborted"
  /\ Get(report).message = "allowed-signers file not found"
  /\ exitCode = 1
  /\ verifyResults = <<>>

\* The flag of the given name in the security.reflexes of a raw manifest,
\* absent when security, reflexes or the flag itself is
RawReflex(r, flag) ==
  IF r.security = None THEN None
  ELSE IF Get(r.security).reflexes = None THEN None
  ELSE Get(Get(r.security).reflexes)[flag]

\* C22: a Manifest that passed ManifestSchema has four boolean security
\* reflexes, each false where the input did not give it and the input's
\* value where it did; an Operator that passed OperatorSchema has empty
\* identities, skills and hives where the input gave none and availability
\* "open" where the input gave none; and an operator document with nothing
\* but schemaVersion, a handle and signing.publicKey passes.
C22_DefaultsAtValidation ==
  (cmd = "schema" /\ pc # "start") =>
    /\ (env[1].file = "manifest" /\ manifest # None) =>
         \A flag \in {"signing", "secretScanning", "sandboxEnforcer", "contentFilter"} :
           LET given == RawReflex(Get(env[1].doc.raw), flag)
               typed == Get(manifest).security.reflexes[flag]
           IN /\ typed \in BOOLEAN
              /\ given = None => typed = FALSE
              /\ given # None => typed = Get(given)
    /\ (env[1].file = "operator" /\ operator # None) =>
         LET r == Get(env[1].doc.raw) IN
         /\ r.identities = None => Get(operator).identities = <<>>
         /\ r.skills = None => Get(operator).skills = <<>>
         /\ r.hives = None => Get(operator).hives = <<>>
         /\ r.availability = None => Get(operator).availability = <<"o","p","e","n">>
         /\ r.availability # None => Get(operator).availability = Get(r.availability)
    /\ env[1].file = "operator" =>
         LET r == Get(env[1].doc.raw) IN
         (/\ r.schemaVersion = Some(<<"1",".","0">>)
          /\ r.handle # None /\ Get(r.handle) # <<>>
          /\ r.signing # None
          /\ Get(r.signing).publicKey # None
          /\ BeginsEd25519(Get(Get(r.signing).publicKey))
          /\ Get(r.signing).fingerprint = None
          /\ r.name = None /\ r.identities = None /\ r.skills = None
          /\ r.availability = None /\ r.hives = None)
         => operator # None

\* C22 witness: an operator document with Tier 1 required fields only was
\* accepted and came out with the defaults
C22_Witness ==
  /\ cmd = "schema"
  /\ pc # "start"
  /\ env[1].file = "operator"
  /\ Get(env[1].doc.raw).identities = None
  /\ Get(env[1].doc.raw).availability = None
  /\ Get(env[1].doc.raw).hives = None
  /\ Get(Get(env[1].doc.raw).signing).fingerprint = None
  /\ operator # None
  /\ Get(operator).availability = <<"o","p","e","n">>
  /\ Get(operator).identities = <<>>

\* The reads of a local pull at which a declared spoke failed validation:
\* a manifest that does not decode or fails its schema, or a Status that
\* does not decode or fails its schema
FailedValidationReads ==
  { i \in 1..Len(env) :
      /\ env[i].file \in {"manifest.yaml", "status.yaml"}
      /\ \/ env[i].doc.kind = "yamlError"
         \/ /\ env[i].doc.kind = "doc"
            /\ IF env[i].file = "manifest.yaml"
               THEN ManifestSchemaIssues(env[i].doc.raw) # <<>>
               ELSE StatusSchemaIssues(env[i].doc.raw) # <<>> }

\* C23: at the end of a local pull, withCollab + withoutCollab is the number
\* of project directories and the number of entries is at most withCollab,
\* equal to it exactly when no declared spoke failed validation; at the end
\* of a remote pull, fetched is the number of entries and
\* fetched + noRepo + noCollab is at most the number of project directories.
C23_FleetCounters ==
  /\ (cmd = "pullLocal" /\ pc = "done") =>
       /\ counters.withCollab + counters.withoutCollab = Len(projects)
       /\ Len(spokes) <= counters.withCollab
       /\ (Len(spokes) = counters.withCollab) <=> (FailedValidationReads = {})
  /\ (cmd = "pullRemote" /\ pc = "done") =>
       /\ counters.fetched = Len(spokes)
       /\ counters.fetched + counters.noRepo + counters.noCollab <= Len(projects)

\* C23 witness: a local pull over three directories has ended with two
\* declared spokes, one undeclared, and one entry
C23_Witness ==
  /\ cmd = "pullLocal"
  /\ pc = "done"
  /\ Len(projects) = 3
  /\ counters.withCollab = 2
  /\ counters.withoutCollab = 1
  /\ Len(spokes) = 1

\* The manifest reads of a verify run that found a file, in order
RECURSIVE PresentManifestReadsFrom(_)
PresentManifestReadsFrom(i) ==
  IF i > Len(env) THEN <<>>
  ELSE (IF env[i].file = "manifest.yaml" /\ env[i].doc.kind # "missing"
        THEN <<env[i]>> ELSE <<>>)
       \o PresentManifestReadsFrom(i + 1)

\* C24: in a local verify run a spoke without manifest gives no result and
\* every spoke with one gives exactly one, in order; a manifest that does
\* not decode or fails its schema gives the result with handle "unknown", no
\* fingerprint, inAllowedSigners = keyMatch = false and the single issue
\* "Invalid manifest.yaml"; the run goes on to the next spoke and ends having
\* looked at every spoke; at the end total = verified + unverified = the
\* number of results, and the run is reported all-clear exactly when
\* unverified = 0.
C24_VerifyAccounting ==
  cmd = "verifyLocal" =>
    LET present == PresentManifestReadsFrom(1) IN
    /\ Len(verifyResults) = Len(present)
    /\ \A k \in 1..Len(present) :
         /\ verifyResults[k].project = present[k].project
         /\ ~ValidManifestDoc(present[k].doc) =>
              /\ verifyResults[k].handle = <<"u","n","k","n","o","w","n">>
              /\ verifyResults[k].fingerprint = None
              /\ verifyResults[k].inAllowedSigners = FALSE
              /\ verifyResults[k].keyMatch = FALSE
              /\ verifyResults[k].issues = <<"Invalid manifest.yaml">>
    /\ env # <<>> => pc # "aborted"
    /\ pc = "done" =>
         /\ Len(env) = Len(projects)
         /\ Get(report).total = Len(verifyResults)
         /\ Get(report).total = Get(report).verified + Get(report).unverified
         /\ Get(report).verified =
              Cardinality({k \in 1..Len(verifyResults) : verifyResults[k].issues = <<>>})
         /\ Get(report).passed <=> (Get(report).unverified = 0)

\* C25: a validate run that reached its summary has looked at the manifest,
\* the status and the operator document, in that order, whatever the
\* manifest was; a missing manifest is recorded as an error, a missing
\* status as a warning and no error, a missing operator as a warning and no
\* error; and the violations of the status document and of the operator
\* document are recorded as errors also when the manifest is missing or
\* invalid.
C25_OnePassGradedAbsence ==
  (cmd = "validate" /\ pc \in {"summary", "done"}) =>
    /\ Len(env) = 3
    /\ env[1].file = "manifest.yaml"
    /\ env[2].file = "status.yaml"
    /\ env[3].file = "operator.yaml"
    /\ env[1].doc.kind = "missing" =>
         FindingsOf(results.errors, "manifest.yaml") # {}
    /\ env[2].doc.kind = "missing" =>
         /\ FindingsOf(results.errors, "status.yaml") = {}
         /\ FindingsOf(results.warnings, "status.yaml") # {}
    /\ env[3].doc.kind = "missing" =>
         /\ FindingsOf(results.errors, "operator.yaml") = {}
         /\ FindingsOf(results.warnings, "operator.yaml") # {}
    /\ manifest = None =>
         /\ (env[2].doc.kind = "doc" /\ env[2].doc.raw # None) =>
              \A p \in StatusViolatedPaths(Get(env[2].doc.raw)) :
                FindingsAt(results.errors, "status.yaml", p) # {}
         /\ (env[3].doc.kind = "doc" /\ env[3].doc.raw # None
             /\ ~BeginsEd25519(Get(Get(Get(env[3].doc.raw).signing).publicKey))) =>
              FindingsAt(results.errors, "operator.yaml", "signing.publicKey") # {}

\* C25 witness: a run without manifest and without operator document, with
\* a status of unknown phase, reached its summary with the manifest error,
\* the phase error and the operator warning
C25_Witness ==
  /\ cmd = "validate"
  /\ pc = "done"
  /\ env[1].doc.kind = "missing"
  /\ env[3].doc.kind = "missing"
  /\ FindingsOf(results.errors, "manifest.yaml") # {}
  /\ FindingsAt(results.errors, "status.yaml", "phase") # {}
  /\ FindingsOf(results.warnings, "operator.yaml") # {}
  /\ FindingsOf(results.errors, "operator.yaml") = {}

\* The key-type token and the key-data token of a key text (the key-data
\* token is empty when the text has the type alone)
KeyTypeToken(key) == Tokens(key)[1]

KeyDataToken(key) == IF Len(Tokens(key)) >= 2 THEN Tokens(key)[2] ELSE <<>>

\* C26 as stated: the local verifier reports a spoke key as matched only if
\* its key-type token and its key-data token are both equal to those of
\* some registry entry.
C26_MatchedOnlyOnEqualTokens ==
  cmd = "verifyLocal" =>
    \A i \in ValidResults :
      verifyResults[i].keyMatch =>
        \E k \in 1..Len(allowedSigners) :
          /\ KeyTypeToken(SpokeKeyOf(verifyResults[i]))
               = KeyTypeToken(allowedSigners[k].publicKey)
          /\ KeyDataToken(SpokeKeyOf(verifyResults[i]))
               = KeyDataToken(allowedSigners[k].publicKey)

\* C26, amended: the local verifier reports a spoke key as matched only if
\* some registry entry has the same key-type token and a key-data token
\* that the spoke's key-data token begins with (equal to it, or extended by
\* further characters); a spoke key whose key-data begins with no
\* registered key-data of its type is reported matched = false.
C26_MatchedOnlyOnRegisteredData ==
  cmd = "verifyLocal" =>
    \A i \in ValidResults :
      verifyResults[i].keyMatch =>
        \E k \in 1..Len(allowedSigners) :
          LET spokeData == KeyDataToken(SpokeKeyOf(verifyResults[i]))
              entryData == KeyDataToken(allowedSigners[k].publicKey)
          IN /\ KeyTypeToken(SpokeKeyOf(verifyResults[i]))
                  = KeyTypeToken(allowedSigners[k].publicKey)
             /\ Len(entryData) <= Len(spokeData)
             /\ SubSeq(spokeData, 1, Len(entryData)) = entryData

\* C26 witness: against the one entry "al ssh-ed25519 AA", the spoke key
\* "ssh-ed25519 AAB" was reported matched and the spoke key "ssh-ed25519 ZZ"
\* was not
C26_Witness ==
  /\ cmd = "verifyLocal"
  /\ Len(allowedSigners) = 1
  /\ allowedSigners[1].publicKey = <<"s","s","h","-","e","d","2","5","5","1","9"," ","A","A">>
  /\ \E i, j \in ValidResults :
       /\ SpokeKeyOf(verifyResults[i])
            = <<"s","s","h","-","e","d","2","5","5","1","9"," ","A","A","B">>
       /\ verifyResults[i].keyMatch
       /\ SpokeKeyOf(verifyResults[j])
            = <<"s","s","h","-","e","d","2","5","5","1","9"," ","Z","Z">>
       /\ ~verifyResults[j].keyMatch

\* C27: for every result a verify run (local or remote) made from a valid
\* manifest, the local matching loop and the remote matching loop, given
\* the spoke's key and the run's registry, both give the result's
\* inAllowedSigners and keyMatch, and the local and the remote issue lists
\* for that verdict are both the result's issues.
C27_VerifiersEquivalent ==
  cmd \in {"verifyLocal", "verifyRemote"} =>
    \A i \in ValidResults :
      LET r == verifyResults[i]
          local == LocalKeyMatch(SpokeKeyOf(r), allowedSigners)
          remote == RemoteKeyMatch(SpokeKeyOf(r), allowedSigners)
      IN /\ local = remote
         /\ r.inAllowedSigners = local
         /\ r.keyMatch = remote
         /\ LocalVerifyIssues(local, SpokeFingerprintOf(r)) = r.issues
         /\ RemoteVerifyIssues(remote, SpokeFingerprintOf(r)) = r.issues

\* C28: when a spoke key has been matched against the registry parsed from
\* a file, and the key is exactly "<keyType> <keyData>" of some accepted
\* line of that file, the key is reported as in allowed-signers, whether or
\* not other lines have the same first token.
C28_EveryAcceptedLineEffective ==
  (cmd \in {"signersLocal", "signersRemote"} /\ verifyResults # <<>>) =>
    \A k \in AcceptedLineIndexes :
      LET tokens == Tokens(SignerLinesRead[k]) IN
      verifyResults[1].spokeKey
          = tokens[2] \o <<" ">> \o Rejoin(SubSeq(tokens, 3, Len(tokens)))
        => verifyResults[1].inAllowedSigners

(* ------------------------------------------------------------------ *)
(* C29                                                                 *)
(* ------------------------------------------------------------------ *)

\* init has written its documents
InitWritten == cmd = "init" /\ pc \in {"written", "validated"}

\* C29: the manifest and the operator document written by one run of init
\* carry the same handle, the same public key and the same fingerprint (or
\* both none), and the cross-file check of a validate run on the freshly
\* written documents records no error.
C29_InitDocumentsAgree ==
  InitWritten =>
    LET m  == Get(env[2].doc.raw)
        op == Get(env[4].doc.raw)
    IN /\ Get(m.identity).handle = op.handle
       /\ Get(m.identity).publicKey = Get(op.signing).publicKey
       /\ Get(m.identity).fingerprint = Get(op.signing).fingerprint
       /\ pc = "validated" => FindingsOf(results.errors, "cross-file") = {}

\* init wrote a detected key and fingerprint under a display name that
\* differs from the handle, both documents passed their schema, and the
\* cross-file check compared them.
C29_Witness ==
  /\ InitWritten
  /\ pc = "validated"
  /\ manifest # None
  /\ operator # None
  /\ Get(manifest).identity.fingerprint # None
  /\ Get(manifest).identity.publicKey = KeyA
  /\ Get(operator).name # Some(Get(operator).handle)
  /\ FindingsOf(results.errors, "cross-file") = {}

(* ------------------------------------------------------------------ *)
(* C30                                                                 *)
(* ------------------------------------------------------------------ *)

\* The errors validate recorded against one of the three documents
InitSchemaErrors ==
  FindingsOf(results.errors, "manifest.yaml")
  \cup FindingsOf(results.errors, "status.yaml")
  \cup FindingsOf(results.errors, "operator.yaml")

\* C30: after every successful run of init, whatever maintainer handle and
\* signing public key it detected, validate run right after it records no
\* schema error against the manifest, the status or the operator document.
C30_InitDocumentsPassSchema ==
  (cmd = "init" /\ pc = "validated") => InitSchemaErrors = {}

====
